---- MODULE Spec2Model ----
(***************************************************************************)
(* Model of the Asana API client core (src/src/api/client.rs): the request *)
(* executor with its retry loop, the two-tier response cache, the offline  *)
(* flag, the rate-limit snapshot and the pagination stream.                *)
(*                                                                         *)
(* Time is counted in ticks, TicksPerSec ticks to the second; Instant and  *)
(* SystemTime read the same clock.  The cache key is the tuple that        *)
(* build_cache_key feeds to SHA-256 (the hash is taken to be injective).   *)
(* The cache directory is readable and writable: disk I/O faults           *)
(* (ApiError::Cache) are outside the model.                                *)
(***************************************************************************)
EXTENDS Integers, Sequences, FiniteSets, TLC

\* ---------------------------------------------------------------- bounds

\* Largest max_retries a client is built with.
MaxRetries == 2
\* Operations started on the client in one behaviour.
MaxCalls == 2
\* Last tick of the clock.
MaxTime == 2
\* Page fetches one pagination stream may start.
MaxFetches == 3

\* The largest max_items a stream is given.
MaxItems == 3

\* Clock resolution: ticks per second.
TicksPerSec == 3
\* ApiClientOptions::cache_ttl, in ticks.
CacheTtl == 1
\* ApiClientOptions::retry_base_delay, in ticks.
RetryBaseDelay == 1

\* The widths of backoff_delay, narrower here than in the program: the
\* multiplier (a u32) has MultiplierBits bits, and a Duration holds at most
\* DurationMax ticks.
MultiplierBits == 3
DurationMax == 12
\* The largest max_retries and retry_base_delay of the clients whose backoff
\* is followed to its overflow.
MaxAttempt == 5
MaxBaseDelay == 5

\* ------------------------------------------------------------ Option<T>

None == <<>>
Some(x) == <<x>>
IsSome(o) == o # <<>>
Unwrap(o) == o[1]

Min(a, b) == IF a <= b THEN a ELSE b

\* ------------------------------------------------------------- requests

Tasks == {"t1"}
\* The tasks that may call the same client at once (ApiClient is Clone over
\* Arcs, lines 246-257); those outside Tasks stay idle where one task runs.
Callers == {"t1", "t2"}
Handles == {"client", "stream"}

\* The public operations and the HTTP method each one passes to execute.
Ops == {"get_json", "post_json", "post_void", "put_json", "delete"}

MethodOf(op) ==
    CASE op = "get_json" -> "GET"
      [] op = "paginate" -> "GET"
      [] op = "post_json" -> "POST"
      [] op = "post_void" -> "POST"
      [] op = "put_json" -> "PUT"
      [] op = "delete" -> "DELETE"

\* Paths of direct calls, and the list endpoint the stream pages through.
Paths == {"/users/me", "/tasks"}
ListPath == "/items"
Tokens == {"a", "b"}
NoTok == "-"

\* Query names and values are compared as Rust compares strings.
StrOrd(s) ==
    CASE s = "a" -> 1
      [] s = "b" -> 2
      [] s = "limit" -> 3
      [] s = "offset" -> 4
      [] s = "opt_fields" -> 5
      [] OTHER -> 0

PairLess(p, q) ==
    \/ StrOrd(p[1]) < StrOrd(q[1])
    \/ StrOrd(p[1]) = StrOrd(q[1]) /\ StrOrd(p[2]) < StrOrd(q[2])

RECURSIVE InsertSorted(_, _)
InsertSorted(p, s) ==
    IF s = <<>> THEN <<p>>
    ELSE IF PairLess(s[1], p) THEN <<s[1]>> \o InsertSorted(p, Tail(s))
    ELSE <<p>> \o s

\* Pairs left in the order the caller gave them.
SortPairs_Unsorted(s) == s

RECURSIVE SortPairs(_)
SortPairs(s) ==
    IF s = <<>> THEN <<>> ELSE InsertSorted(s[1], SortPairs(Tail(s)))

build_cache_key(method, path, query_pairs) ==
    <<method, path, SortPairs(query_pairs)>>

\* --------------------------------------------------------------- bodies

\* A response body: kind is "empty", "text" (not JSON), "object" or "array"
\* (any JSON value that is not an object); keys are an object's top-level
\* keys; data_list says that `data` is a JSON array, items are its elements
\* and next is next_page.offset; msgs are the errors[].message strings and
\* text is the raw text, both as sequences of words.
MkBody(kind, keys, data_list, items, next, msgs, text) ==
    [kind |-> kind, keys |-> keys, data_list |-> data_list, items |-> items,
     next |-> next, msgs |-> msgs, text |-> text]

EmptyBody == MkBody("empty", {}, FALSE, <<>>, NoTok, <<>>, <<>>)

PageBody(items, next) ==
    MkBody("object",
           IF next = NoTok THEN {"data"} ELSE {"data", "next_page"},
           TRUE, items, next, <<>>, <<>>)

\* {"data": {...}}: a single-resource envelope.
DataBody == MkBody("object", {"data"}, FALSE, <<>>, NoTok, <<>>, <<>>)

RECURSIVE Flatten(_)
Flatten(ss) == IF ss = <<>> THEN <<>> ELSE ss[1] \o Flatten(Tail(ss))

\* {"errors": [{"message": m}, ...]}
ErrorsBody(msgs) ==
    MkBody("object", {"errors"}, FALSE, <<>>, NoTok, msgs, Flatten(msgs))

TextBody(words) == MkBody("text", {}, FALSE, <<>>, NoTok, <<>>, words)

ItemSeqs == {<<>>, <<"i1">>, <<"i1", "i2">>}
PageBodies == {PageBody(s, n) : s \in ItemSeqs, n \in Tokens \cup {NoTok}}

\* Bodies of error responses.
ErrorBodies ==
    { ErrorsBody(<< <<"offset", "is", "invalid", "or", "expired">> >>),
      ErrorsBody(<< <<"OFFSET">>, <<"Expired">> >>),
      ErrorsBody(<< <<"bad", "request">> >>),
      TextBody(<<"Offset", "EXPIRED">>),
      TextBody(<<"offset">>),
      EmptyBody }

\* {"foo": "bar"}: an object with neither `data` nor `errors`.
FooBody == MkBody("object", {"foo"}, FALSE, <<>>, NoTok, <<>>, <<>>)

\* A JSON value that is not an object: [1, 2].
ArrayBody == MkBody("array", {}, FALSE, <<>>, NoTok, <<>>, <<>>)

\* The path whose 2xx bodies are of every shape.
BodyPath == "/projects"
AnyBodies ==
    {DataBody, ErrorsBody(<< <<"bad", "request">> >>), FooBody, ArrayBody,
     TextBody(<<"offset">>), EmptyBody}

\* The bearer token of the client, and the token of another client that
\* uses the same cache directory.
Token == "pat_b"
OtherToken == "pat_a"

\* The path whose 2xx body depends on who asks: {"data": [...]} with the
\* workspaces that the token of the request may see.
SharedPath == "/workspaces"
WorkspacesOf(token) ==
    MkBody("object", {"data"}, TRUE, <<token>>, NoTok, <<>>, <<>>)

\* What the server may answer with a 2xx status, by path.
SuccessBodies(path) ==
    IF path = ListPath THEN PageBodies \cup {EmptyBody, FooBody, DataBody}
    ELSE IF path = SharedPath THEN {WorkspacesOf(Token)}
    ELSE IF path = BodyPath THEN AnyBodies
    ELSE IF path = "/users/me" THEN {DataBody, FooBody}
    ELSE {DataBody}

\* What the server may send as the body of an error status, by path.
ErrorBodiesFor(path) ==
    IF path = ListPath THEN ErrorBodies
    ELSE {EmptyBody, ErrorsBody(<< <<"bad", "request">> >>)}

\* str::to_ascii_lowercase, word by word.
LowerWord(w) ==
    CASE w = "OFFSET" -> "offset"
      [] w = "Offset" -> "offset"
      [] w = "EXPIRED" -> "expired"
      [] w = "Expired" -> "expired"
      [] w = "Bad" -> "bad"
      [] w = "Request" -> "request"
      [] w = "Not" -> "not"
      [] w = "Found" -> "found"
      [] w = "Service" -> "service"
      [] w = "Unavailable" -> "unavailable"
      [] OTHER -> w

to_ascii_lowercase(text) == [i \in DOMAIN text |-> LowerWord(text[i])]

Contains(text, w) == \E i \in DOMAIN text : text[i] = w

\* A match that compares the text as it came.
matches_CaseSensitive(text) ==
    /\ Contains(text, "offset")
    /\ (Contains(text, "expired") \/ Contains(text, "invalid"))

\* The closure `matches` of is_offset_expired.
matches(text) ==
    LET lowered == to_ascii_lowercase(text)
    IN  /\ Contains(lowered, "offset")
        /\ (Contains(lowered, "expired") \/ Contains(lowered, "invalid"))

is_offset_expired(details, message) ==
    \/ /\ IsSome(details)
       /\ "errors" \in Unwrap(details).keys
       /\ \E i \in DOMAIN Unwrap(details).msgs : matches(Unwrap(details).msgs[i])
    \/ matches(message)

\* StatusCode::canonical_reason.
canonical_reason(status) ==
    CASE status = 400 -> <<"Bad", "Request">>
      [] status = 404 -> <<"Not", "Found">>
      [] status = 503 -> <<"Service", "Unavailable">>
      [] OTHER -> <<"unknown", "error">>

\* serde_json::from_str::<Value>(&text).ok()
ParseJson(body) == IF body.kind \in {"object", "array"} THEN Some(body) ELSE None

\* -------------------------------------------------------------- results

\* Result<Vec<u8>, ApiError>, and Result<T, ApiError> of parse_response.
\* tier is where the bytes of an Ok came from: memory, disk or network.
MkResult(tag, bytes, tier, status, message, details, retry_after, resource) ==
    [tag |-> tag, bytes |-> bytes, tier |-> tier, status |-> status,
     message |-> message, details |-> details, retry_after |-> retry_after,
     resource |-> resource]

NoResult == MkResult("none", EmptyBody, "", 0, <<>>, None, 0, "")
Ok(bytes, tier) == MkResult("Ok", bytes, tier, 0, <<>>, None, 0, "")
ErrOffline(path) == MkResult("Offline", EmptyBody, "", 0, <<>>, None, 0, path)
ErrNetwork == MkResult("Network", EmptyBody, "", 0, <<>>, None, 0, "")
ErrAuthentication(body) ==
    MkResult("Authentication", body, "", 0, <<>>, None, 0, "")
ErrRateLimited(retry_after, body) ==
    MkResult("RateLimited", body, "", 0, <<>>, None, retry_after, "")
ErrHttp(status, message, details) ==
    MkResult("Http", EmptyBody, "", status, message, details, 0, "")
ErrOther(message) == MkResult("Other", EmptyBody, "", 0, message, None, 0, "")
ErrDeserialize == MkResult("Deserialize", EmptyBody, "", 0, <<>>, None, 0, "")

\* An envelope check that knows `data` only.
validate_response_schema_DataOnly(value) ==
    IF value.kind = "object"
    THEN IF "data" \in value.keys
         THEN Ok(value, "")
         ELSE ErrOther(<<"response", "missing", "required", "data", "or",
                         "errors", "field">>)
    ELSE Ok(value, "")

validate_response_schema(value) ==
    IF value.kind = "object"
    THEN IF "data" \in value.keys \/ "errors" \in value.keys
         THEN Ok(value, "")
         ELSE ErrOther(<<"response", "missing", "required", "data", "or",
                         "errors", "field">>)
    ELSE Ok(value, "")

\* parse_response::<T>; as_list says that T is ListResponse<_> (the
\* pagination stream), otherwise T is serde_json::Value.
parse_response(path, bytes, as_list) ==
    IF bytes.kind = "empty"
    THEN ErrOther(<<"empty", "response", "body", "for", path>>)
    ELSE IF bytes.kind = "text" THEN ErrDeserialize
    ELSE IF validate_response_schema(bytes).tag # "Ok"
    THEN validate_response_schema(bytes)
    ELSE IF as_list /\ ~(bytes.kind = "object" /\ "data" \in bytes.keys
                          /\ bytes.data_list)
    THEN ErrDeserialize
    ELSE Ok(bytes, "")

\* -------------------------------------------------------------- headers

\* Duration::as_secs of a time in ticks.
as_secs(t) == t \div TicksPerSec
\* UNIX_EPOCH + Duration::from_secs(s), in ticks.
from_secs(s) == s * TicksPerSec

\* The rate-limit headers of a response, each absent or a number.
MkHeaders(limit, remaining, reset, retry_after) ==
    [limit |-> limit, remaining |-> remaining, reset |-> reset,
     retry_after |-> retry_after]

NoHeaders == MkHeaders(None, None, None, None)

\* The headers a server sends with a 2xx and with a 429.
SuccessHeaders == {NoHeaders, MkHeaders(Some(150), Some(149), None, None)}
RateLimitedHeaders ==
    { NoHeaders,
      MkHeaders(Some(150), Some(0), None, Some(2)),
      MkHeaders(None, None, None, Some(-1)) }
\* The headers a server sends with any other status.
ErrorHeaders == {NoHeaders, MkHeaders(Some(150), Some(7), None, None)}

\* parse_retry_after: the header counts seconds; one that is negative or
\* no number (here -1) gives None.
\* A Retry-After header that is never read.
parse_retry_after_Ignored(headers) == None

parse_retry_after(headers) ==
    IF IsSome(headers.retry_after) /\ Unwrap(headers.retry_after) >= 0
    THEN Some(from_secs(Unwrap(headers.retry_after)))
    ELSE None

\* A snapshot taken of every response, headers or not.
extract_rate_limit_headers_Always(headers) ==
    Some(MkHeaders(headers.limit, headers.remaining, headers.reset,
                   parse_retry_after(headers)))

\* extract_rate_limit_headers: limit, remaining and reset are read as they
\* come (a value that is no number is an absent header here).
extract_rate_limit_headers(headers) ==
    LET retry_after == parse_retry_after(headers)
    IN  IF /\ headers.limit = None /\ headers.remaining = None
           /\ headers.reset = None /\ retry_after = None
        THEN None
        ELSE Some(MkHeaders(headers.limit, headers.remaining, headers.reset,
                            retry_after))

\* ---------------------------------------------------------------- state

VARIABLES
    \* ApiClient, shared by every clone (Arc)
    memory_cache,   \* HashMap<String, CacheEntry>
    rate_limit,     \* Option<RateLimitInfo>
    \* ApiClient, one per handle
    offline,        \* AtomicBool of each handle
    max_retries,    \* options.max_retries
    retry_base_delay,   \* options.retry_base_delay, in ticks
    cache_ttl,      \* options.cache_ttl, in ticks
    \* the cache directory: key -> file
    disk,
    \* memory inserts spawned by store_in_memory and not yet run
    pending,
    \* who holds the RwLock of memory_cache and the RwLock of rate_limit
    locks,
    \* the clock, in ticks
    now,
    \* one execute() per task
    pc,             \* idle, lookup, send, inflight, sleep, done
    req,            \* op, handle, method, path, query_pairs
    cache_key,      \* the local cache_key: Option<key>
    attempt,        \* the local attempt
    result,         \* what execute returned
    reply,          \* what the operation returned to its caller
    fd,             \* the file write_cache has open: closed, open, unlinked
    \* history
    sends,          \* HTTP requests sent by the current execute()
    slept,          \* the sleeps of the current execute(), in order
    outcomes,       \* how each attempt of the current execute() ended
    last_resp,      \* the status, headers and body of the last response
    http_log,       \* HTTP requests sent since the operation began
    calls,          \* operations started
    \* the pagination stream (try_stream! of paginate_with_limit)
    st,             \* none, loop, fetching, ended
    base_query,     \* query
    max_items,      \* Option<usize>
    next_offset,    \* Option<String>
    emitted,        \* usize
    yielded,        \* the items of the stream, in order
    fetched,        \* the pages get_json_with_pairs returned to the stream
    fetches         \* page fetches started

clientVars ==
    <<memory_cache, rate_limit, offline, max_retries, retry_base_delay,
      cache_ttl>>
cacheVars == <<memory_cache, disk, pending>>
taskVars ==
    <<pc, req, cache_key, attempt, result, reply, fd, sends, slept, outcomes,
      last_resp>>
streamVars ==
    <<st, base_query, max_items, next_offset, emitted, yielded, fetched, fetches>>
vars ==
    <<memory_cache, rate_limit, offline, max_retries, retry_base_delay,
      cache_ttl, disk, pending, locks, now, pc, req, cache_key, attempt,
      result, reply, fd, sends, slept, outcomes, last_resp, http_log, calls, st,
      base_query, max_items, next_offset, emitted, yielded, fetched, fetches>>

\* The two RwLocks: the tasks that hold a read guard of memory_cache, the
\* holder of its write guard and the holder of the write guard of
\* rate_limit (None when it is free).
Locks(cache_readers, cache_writer, rate_writer) ==
    [cache_readers |-> cache_readers, cache_writer |-> cache_writer,
     rate_writer |-> rate_writer]
NoLocks == Locks({}, None, None)

\* ---------------------------------------------------------------- cache

EmptyMap == [k \in {} |-> None]
Put(m, k, v) == [x \in DOMAIN m \cup {k} |-> IF x = k THEN v ELSE m[x]]
Remove(m, k) == [x \in DOMAIN m \ {k} |-> m[x]]

\* CacheEntry
CacheEntry(expires_at, value) == [expires_at |-> expires_at, value |-> value]

\* base64: STANDARD.encode, and STANDARD.decode(..).ok()
Encode(bytes) == <<"b64", bytes>>
Decode(text) == IF text[1] = "b64" THEN Some(text[2]) ELSE None

\* A file of the cache directory: json_ok says that it parses as a
\* DiskCacheEntry, which is then `entry`.
DiskCacheEntry(expires_at, body) == [expires_at |-> expires_at, body |-> body]
File(json_ok, entry) == [json_ok |-> json_ok, entry |-> entry]

\* get_from_cache, lines 716-725: the memory tier.
MemoryHit(key) ==
    key \in DOMAIN memory_cache /\ memory_cache[key].expires_at > now

\* get_from_cache, lines 727-757: the disk tier, read when the memory tier
\* misses.  A file is served when it parses, has not expired and decodes.
DiskHit(key) ==
    /\ key \in DOMAIN disk
    /\ disk[key].json_ok
    /\ now <= from_secs(disk[key].entry.expires_at)
    /\ IsSome(Decode(disk[key].entry.body))

\* A lookup that stops at the memory tier.
get_from_cache_MemoryOnly(key) ==
    IF MemoryHit(key) THEN Ok(memory_cache[key].value, "memory") ELSE NoResult

\* get_from_cache: Ok(Some(bytes)) as an Ok result, Ok(None) as NoResult.
get_from_cache(key) ==
    IF MemoryHit(key) THEN Ok(memory_cache[key].value, "memory")
    ELSE IF DiskHit(key) THEN Ok(Unwrap(Decode(disk[key].entry.body)), "disk")
    ELSE NoResult

\* store_in_memory: the insert is spawned, not done.
store_in_memory(p, key, body) ==
    Append(p, [key |-> key, entry |-> CacheEntry(now + cache_ttl, body)])

\* A lookup that leaves every file where it is.
DiskAfterLookup_Kept(key) == disk

\* The cache directory after get_from_cache: a file that was read and not
\* served is removed.
DiskAfterLookup(key) ==
    IF MemoryHit(key) \/ key \notin DOMAIN disk \/ DiskHit(key)
    THEN disk
    ELSE Remove(disk, key)

\* The spawned inserts after get_from_cache: a disk hit is promoted.
PendingAfterLookup(key) ==
    IF ~MemoryHit(key) /\ DiskHit(key)
    THEN store_in_memory(pending, key, Unwrap(Decode(disk[key].entry.body)))
    ELSE pending

\* write_cache: the file written for `body`.
WrittenFile(body) ==
    File(TRUE, DiskCacheEntry(as_secs(now + cache_ttl), Encode(body)))

\* ------------------------------------------------------------- executor

\* A response as the history keeps it: status 0 is a failed send.
Response(status, headers, body) ==
    [status |-> status, headers |-> headers, body |-> body]
NoResponse == Response(0, NoHeaders, EmptyBody)

\* The history of an attempt that ended in `class` with response `resp`.
Ended(t, class, resp) ==
    /\ outcomes' = [outcomes EXCEPT ![t] = Append(@, class)]
    /\ last_resp' = [last_resp EXCEPT ![t] = resp]

Request(op, handle, path, query_pairs) ==
    [op |-> op, handle |-> handle, method |-> MethodOf(op), path |-> path,
     query_pairs |-> query_pairs]

NoRequest == Request("get_json", "client", "", <<>>)

\* A client that never reads its offline flag.
is_offline_Never(handle) == FALSE

is_offline(handle) == offline[handle]

\* 1u32.checked_shl(n): None when n is the width of the type or more.
checked_shl(n) == IF n < MultiplierBits THEN Some(2 ^ n) ELSE None

\* A product that wraps around instead of being refused.
checked_mul_Wrapping(d, k) == Some((d * k) % (DurationMax + 1))

\* Duration::checked_mul: None when the product is not a Duration.
checked_mul(d, k) == IF d * k <= DurationMax THEN Some(d * k) ELSE None

\* backoff_delay: 1u32.checked_shl(attempt).unwrap_or(1), then
\* retry_base_delay.checked_mul(multiplier).unwrap_or(retry_base_delay).
backoff_delay(a) ==
    LET multiplier == IF IsSome(checked_shl(a)) THEN Unwrap(checked_shl(a))
                      ELSE 1
        delay == checked_mul(retry_base_delay, multiplier)
    IN  IF IsSome(delay) THEN Unwrap(delay) ELSE retry_base_delay

\* execute begins (lines 583-584): a GET goes to the cache first.
Begin(t, r) ==
    /\ req' = [req EXCEPT ![t] = r]
    /\ pc' = [pc EXCEPT ![t] = IF r.method = "GET" THEN "lookup" ELSE "send"]
    /\ cache_key' = [cache_key EXCEPT ![t] = None]
    /\ attempt' = [attempt EXCEPT ![t] = 0]
    /\ result' = [result EXCEPT ![t] = NoResult]
    /\ reply' = [reply EXCEPT ![t] = NoResult]
    /\ UNCHANGED fd
    /\ sends' = [sends EXCEPT ![t] = 0]
    /\ slept' = [slept EXCEPT ![t] = <<>>]
    /\ outcomes' = [outcomes EXCEPT ![t] = <<>>]
    /\ last_resp' = [last_resp EXCEPT ![t] = NoResponse]

\* A public operation is called on the client with a query.
CallQuery(t, op, path, query) ==
    /\ pc[t] = "idle"
    /\ st = "none"
    /\ calls < MaxCalls
    /\ calls' = calls + 1
    /\ UNCHANGED http_log
    /\ Begin(t, Request(op, "client", path, query))
    /\ UNCHANGED <<clientVars, disk, pending, locks, now, streamVars>>

\* A public operation is called on the client with no query.
Call(t, op, path) == CallQuery(t, op, path, <<>>)

\* execute, lines 584-595: the cache lookup and the offline check.
Lookup(t) ==
    /\ pc[t] = "lookup"
    /\ LET key == build_cache_key(req[t].method, req[t].path, req[t].query_pairs)
           got == get_from_cache(key)
       IN  /\ disk' = DiskAfterLookup(key)
           /\ pending' = PendingAfterLookup(key)
           /\ IF got.tag = "Ok"
              THEN /\ result' = [result EXCEPT ![t] = got]
                   /\ pc' = [pc EXCEPT ![t] = "done"]
                   /\ UNCHANGED cache_key
              ELSE /\ cache_key' = [cache_key EXCEPT ![t] = Some(key)]
                   /\ IF is_offline(req[t].handle)
                      THEN /\ result' = [result EXCEPT ![t] = ErrOffline(req[t].path)]
                           /\ pc' = [pc EXCEPT ![t] = "done"]
                      ELSE /\ pc' = [pc EXCEPT ![t] = "send"]
                           /\ UNCHANGED result
    /\ UNCHANGED <<memory_cache, rate_limit, offline, max_retries,
                   retry_base_delay, cache_ttl, locks, now, req, reply, fd,
                   attempt, sends, slept, outcomes, last_resp, http_log,
                   calls, streamVars>>

\* execute, lines 603-612: the request is built and sent.
Send(t) ==
    /\ pc[t] = "send"
    /\ pc' = [pc EXCEPT ![t] = "inflight"]
    /\ sends' = [sends EXCEPT ![t] = @ + 1]
    /\ http_log' = Append(http_log,
                          [task |-> t, method |-> req[t].method,
                           path |-> req[t].path,
                           query_pairs |-> req[t].query_pairs,
                           offline |-> is_offline(req[t].handle)])
    /\ UNCHANGED <<clientVars, disk, pending, locks, now, req, reply, fd,
                   cache_key, attempt, result, slept, outcomes, last_resp,
                   calls, streamVars>>

\* The task returns from execute.
Return(t, r) ==
    /\ result' = [result EXCEPT ![t] = r]
    /\ pc' = [pc EXCEPT ![t] = "done"]
    /\ UNCHANGED <<attempt, slept>>

\* sleep(delay).await is entered.
Sleep(t, delay) ==
    /\ pc' = [pc EXCEPT ![t] = "sleep"]
    /\ slept' = [slept EXCEPT ![t] = Append(@, delay)]
    /\ UNCHANGED <<attempt, result>>

\* execute, lines 614-623: request.send() failed.
TransportError(t, kind) ==
    /\ pc[t] = "inflight"
    /\ IF kind \in {"timeout", "connect"} /\ attempt[t] < max_retries
       THEN Sleep(t, backoff_delay(attempt[t]))
       ELSE Return(t, ErrNetwork)
    /\ Ended(t, IF kind = "other" THEN "fatal" ELSE "transport", NoResponse)
    /\ UNCHANGED <<clientVars, disk, pending, locks, now, req, reply, fd,
                   cache_key, sends, http_log, calls, streamVars>>

\* An executor that caches a body only once it has passed parse_response.
RespSuccess_ValidatedFirst(t, headers, bytes) ==
    /\ pc[t] = "inflight"
    /\ rate_limit' = IF IsSome(extract_rate_limit_headers(headers))
                     THEN extract_rate_limit_headers(headers)
                     ELSE rate_limit
    /\ IF /\ IsSome(cache_key[t])
          /\ parse_response(req[t].path, bytes, FALSE).tag = "Ok"
       THEN /\ pending' = store_in_memory(pending, Unwrap(cache_key[t]), bytes)
            /\ disk' = Put(disk, Unwrap(cache_key[t]), WrittenFile(bytes))
       ELSE UNCHANGED <<pending, disk>>
    /\ Return(t, Ok(bytes, "network"))
    /\ Ended(t, "2xx", Response(200, headers, bytes))
    /\ UNCHANGED <<memory_cache, offline, max_retries, retry_base_delay,
                   cache_ttl, locks, now, req, reply, fd, cache_key, sends,
                   http_log, calls, streamVars>>

\* An executor that caches the 2xx body of every method.
RespSuccess_AnyMethod(t, headers, bytes) ==
    /\ pc[t] = "inflight"
    /\ rate_limit' = IF IsSome(extract_rate_limit_headers(headers))
                     THEN extract_rate_limit_headers(headers)
                     ELSE rate_limit
    /\ LET key == build_cache_key(req[t].method, req[t].path,
                                  req[t].query_pairs)
       IN  /\ pending' = store_in_memory(pending, key, bytes)
           /\ disk' = Put(disk, key, WrittenFile(bytes))
    /\ Return(t, Ok(bytes, "network"))
    /\ Ended(t, "2xx", Response(200, headers, bytes))
    /\ UNCHANGED <<memory_cache, offline, max_retries, retry_base_delay,
                   cache_ttl, locks, now, req, reply, fd, cache_key, sends,
                   http_log, calls, streamVars>>

\* execute, lines 625-636: a 2xx response.
RespSuccess(t, headers, bytes) ==
    /\ pc[t] = "inflight"
    /\ rate_limit' = IF IsSome(extract_rate_limit_headers(headers))
                     THEN extract_rate_limit_headers(headers)
                     ELSE rate_limit
    /\ IF IsSome(cache_key[t])
       THEN /\ pending' = store_in_memory(pending, Unwrap(cache_key[t]), bytes)
            /\ disk' = Put(disk, Unwrap(cache_key[t]), WrittenFile(bytes))
       ELSE UNCHANGED <<pending, disk>>
    /\ Return(t, Ok(bytes, "network"))
    /\ Ended(t, "2xx", Response(200, headers, bytes))
    /\ UNCHANGED <<memory_cache, offline, max_retries, retry_base_delay,
                   cache_ttl, locks, now, req, reply, fd, cache_key, sends,
                   http_log, calls, streamVars>>

\* execute, lines 640-659: HTTP 429.
Resp429(t, headers, body) ==
    /\ pc[t] = "inflight"
    /\ rate_limit' = IF IsSome(extract_rate_limit_headers(headers))
                     THEN extract_rate_limit_headers(headers)
                     ELSE rate_limit
    /\ LET retry_after == IF IsSome(parse_retry_after(headers))
                          THEN Unwrap(parse_retry_after(headers))
                          ELSE backoff_delay(attempt[t])
       IN  IF attempt[t] < max_retries
           THEN Sleep(t, retry_after)
           ELSE Return(t, ErrRateLimited(retry_after, body))
    /\ Ended(t, "429", Response(429, headers, body))
    /\ UNCHANGED <<memory_cache, offline, max_retries, retry_base_delay,
                   cache_ttl, disk, pending, locks, now, req, reply, fd,
                   cache_key, sends, http_log, calls, streamVars>>

\* A 401/403 handled as a server error is: retried while attempts remain.
RespAuth_Retried(t, status, headers, body) ==
    /\ pc[t] = "inflight"
    /\ status \in {401, 403}
    /\ IF attempt[t] < max_retries
       THEN Sleep(t, backoff_delay(attempt[t]))
       ELSE Return(t, ErrAuthentication(body))
    /\ Ended(t, "auth", Response(status, headers, body))
    /\ UNCHANGED <<clientVars, disk, pending, locks, now, req, reply, fd,
                   cache_key, sends, http_log, calls, streamVars>>

\* A 401/403 whose rate-limit headers are recorded.
RespAuth_Tracked(t, status, headers, body) ==
    /\ pc[t] = "inflight"
    /\ status \in {401, 403}
    /\ rate_limit' = IF IsSome(extract_rate_limit_headers(headers))
                     THEN extract_rate_limit_headers(headers)
                     ELSE rate_limit
    /\ Return(t, ErrAuthentication(body))
    /\ Ended(t, "auth", Response(status, headers, body))
    /\ UNCHANGED <<memory_cache, offline, max_retries, retry_base_delay,
                   cache_ttl, disk, pending, locks, now, req, reply, fd,
                   cache_key, sends, http_log, calls, streamVars>>

\* execute, lines 661-664: HTTP 401 or 403.
RespAuth(t, status, headers, body) ==
    /\ pc[t] = "inflight"
    /\ status \in {401, 403}
    /\ Return(t, ErrAuthentication(body))
    /\ Ended(t, "auth", Response(status, headers, body))
    /\ UNCHANGED <<clientVars, disk, pending, locks, now, req, reply, fd,
                   cache_key, sends, http_log, calls, streamVars>>

\* An HTTP error that never carries the parsed body.
HttpError_NoDetails(status, body) ==
    ErrHttp(status,
            IF body.kind = "empty" THEN canonical_reason(status) ELSE body.text,
            None)

\* execute, lines 674-687: the structured HTTP error.
HttpError(status, body) ==
    ErrHttp(status,
            IF body.kind = "empty" THEN canonical_reason(status) ELSE body.text,
            ParseJson(body))

\* The retry guard of a 5xx off by one: attempt <= max_retries.
RespOther_OneMore(t, status, headers, body) ==
    /\ pc[t] = "inflight"
    /\ IF status >= 500 /\ attempt[t] <= max_retries
       THEN Sleep(t, backoff_delay(attempt[t]))
       ELSE Return(t, HttpError(status, body))
    /\ Ended(t, IF status >= 500 THEN "5xx" ELSE "4xx", Response(status, headers, body))
    /\ UNCHANGED <<clientVars, disk, pending, locks, now, req, reply, fd,
                   cache_key, sends, http_log, calls, streamVars>>

\* execute, lines 666-687: any other status; a 5xx is retried while
\* attempts remain.
RespOther(t, status, headers, body) ==
    /\ pc[t] = "inflight"
    /\ IF status >= 500 /\ attempt[t] < max_retries
       THEN Sleep(t, backoff_delay(attempt[t]))
       ELSE Return(t, HttpError(status, body))
    /\ Ended(t, IF status >= 500 THEN "5xx" ELSE "4xx", Response(status, headers, body))
    /\ UNCHANGED <<clientVars, disk, pending, locks, now, req, reply, fd,
                   cache_key, sends, http_log, calls, streamVars>>

\* A sleep after which the attempt is not counted.
Wake_Uncounted(t) ==
    /\ pc[t] = "sleep"
    /\ pc' = [pc EXCEPT ![t] = "send"]
    /\ UNCHANGED <<clientVars, disk, pending, locks, now, req, reply, fd,
                   cache_key, attempt, result, sends, slept, outcomes,
                   last_resp, http_log, calls, streamVars>>

\* execute, lines 618-620, 653-655, 669-671: the sleep ends, attempt += 1.
Wake(t) ==
    /\ pc[t] = "sleep"
    /\ attempt' = [attempt EXCEPT ![t] = @ + 1]
    /\ pc' = [pc EXCEPT ![t] = "send"]
    /\ UNCHANGED <<clientVars, disk, pending, locks, now, req, reply, fd,
                   cache_key, result, sends, slept, outcomes, last_resp,
                   http_log, calls, streamVars>>

\* Ok(()) of post_void and delete.
OkUnit == Ok(EmptyBody, "unit")

\* Every operation parses the bytes.
Reply_Parsed(op, path, r) ==
    IF r.tag # "Ok" THEN r ELSE parse_response(path, r.bytes, FALSE)

\* What an operation makes of the result of execute: get_json, post_json
\* and put_json parse the bytes (lines 543, 385, 434), post_void and
\* delete drop them (lines 395-398, 444-448).
Reply(op, path, r) ==
    IF r.tag # "Ok" THEN r
    ELSE IF op \in {"post_void", "delete"} THEN OkUnit
    ELSE parse_response(path, r.bytes, FALSE)

\* execute has returned to the operation, which returns to its caller.
Deliver(t) ==
    /\ pc[t] = "done"
    /\ st = "none"
    /\ reply[t] = NoResult
    /\ reply' = [reply EXCEPT ![t] = Reply(req[t].op, req[t].path, result[t])]
    /\ UNCHANGED <<clientVars, disk, pending, locks, now, pc, req, cache_key,
                   attempt, result, fd, sends, slept, outcomes, last_resp,
                   http_log, calls, streamVars>>

\* The caller takes the result of the operation.
Consume(t) ==
    /\ pc[t] = "done"
    /\ st = "none"
    /\ reply[t] # NoResult
    /\ pc' = [pc EXCEPT ![t] = "idle"]
    /\ req' = [req EXCEPT ![t] = NoRequest]
    /\ cache_key' = [cache_key EXCEPT ![t] = None]
    /\ attempt' = [attempt EXCEPT ![t] = 0]
    /\ result' = [result EXCEPT ![t] = NoResult]
    /\ reply' = [reply EXCEPT ![t] = NoResult]
    /\ UNCHANGED fd
    /\ sends' = [sends EXCEPT ![t] = 0]
    /\ slept' = [slept EXCEPT ![t] = <<>>]
    /\ outcomes' = [outcomes EXCEPT ![t] = <<>>]
    /\ last_resp' = [last_resp EXCEPT ![t] = NoResponse]
    /\ http_log' = <<>>
    /\ UNCHANGED <<clientVars, disk, pending, locks, now, calls, streamVars>>

\* No execute() is under way: the environment (the clock, the spawned
\* inserts, the caller's set_offline) moves between operations.
Quiet == \A t \in Tasks : pc[t] \in {"idle", "done"} /\ result[t] = NoResult

\* A task spawned by store_in_memory runs (lines 798-801).
MemInsert(i) ==
    /\ Quiet
    /\ i \in DOMAIN pending
    /\ memory_cache' = Put(memory_cache, pending[i].key, pending[i].entry)
    /\ pending' = [j \in 1..(Len(pending) - 1) |->
                      IF j < i THEN pending[j] ELSE pending[j + 1]]
    /\ UNCHANGED <<rate_limit, offline, max_retries, retry_base_delay,
                   cache_ttl, disk, locks, now, taskVars, http_log, calls,
                   streamVars>>

\* set_offline, called on the client.
set_offline(b) ==
    /\ Quiet
    /\ offline' = [offline EXCEPT !["client"] = b]
    /\ UNCHANGED <<memory_cache, rate_limit, max_retries, retry_base_delay,
                   cache_ttl, disk, pending, locks, now, taskVars, http_log,
                   calls, streamVars>>

\* The clock moves, up to tick `limit`.
Advance(limit) ==
    /\ Quiet
    /\ now < limit
    /\ now' = now + 1
    /\ UNCHANGED <<clientVars, disk, pending, locks, taskVars, http_log, calls,
                   streamVars>>

Tick == Advance(MaxTime)

\* What a server and the transport may do with a request in flight: the
\* rate-limit headers of a 2xx and of a 429, the 401/403 and the other
\* error statuses, and the ways request.send() fails.
Server(ok_headers, limited_headers, error_headers, auth, statuses, kinds) ==
    [ok_headers |-> ok_headers, limited_headers |-> limited_headers,
     error_headers |-> error_headers, auth |-> auth, statuses |-> statuses,
     kinds |-> kinds]

FullServer ==
    Server(SuccessHeaders, RateLimitedHeaders, ErrorHeaders, {401, 403},
           {400, 404, 503}, {"timeout", "connect", "other"})

\* A server with fewer ways to fail.
PlainServer ==
    Server(SuccessHeaders, {NoHeaders}, {NoHeaders}, {401}, {503}, {"connect"})

Respond(t, srv) ==
    \/ \E h \in srv.ok_headers, b \in SuccessBodies(req[t].path) :
          RespSuccess(t, h, b)
    \/ \E h \in srv.limited_headers,
          b \in {EmptyBody, TextBody(<<"rate", "limited">>)} :
          Resp429(t, h, b)
    \/ \E s \in srv.auth, h \in srv.error_headers,
          b \in {EmptyBody, TextBody(<<"denied">>)} :
          RespAuth(t, s, h, b)
    \/ \E s \in srv.statuses, h \in srv.error_headers,
          b \in ErrorBodiesFor(req[t].path) :
          RespOther(t, s, h, b)
    \/ \E k \in srv.kinds : TransportError(t, k)

Execute(t, srv) == Lookup(t) \/ Send(t) \/ Respond(t, srv) \/ Wake(t)

\* ----------------------------------------------------------------- Spec

K0 == build_cache_key("GET", "/users/me", <<>>)

\* The cache directory a client may find: empty, or holding a file left by
\* an earlier run (fresh, unreadable as an entry, or with a broken body).
InitialDisks ==
    { EmptyMap,
      Put(EmptyMap, K0, File(TRUE, DiskCacheEntry(1, Encode(DataBody)))),
      Put(EmptyMap, K0, File(FALSE, DiskCacheEntry(0, Encode(EmptyBody)))),
      Put(EmptyMap, K0, File(TRUE, DiskCacheEntry(1, <<"bad", EmptyBody>>))) }

InitTask ==
    /\ pc = [t \in Callers |-> "idle"]
    /\ req = [t \in Callers |-> NoRequest]
    /\ cache_key = [t \in Callers |-> None]
    /\ attempt = [t \in Callers |-> 0]
    /\ result = [t \in Callers |-> NoResult]
    /\ reply = [t \in Callers |-> NoResult]
    /\ fd = [t \in Callers |-> "closed"]
    /\ sends = [t \in Callers |-> 0]
    /\ slept = [t \in Callers |-> <<>>]
    /\ outcomes = [t \in Callers |-> <<>>]
    /\ last_resp = [t \in Callers |-> NoResponse]
    /\ http_log = <<>>
    /\ calls = 0

InitStream ==
    /\ st = "none"
    /\ base_query = <<>>
    /\ max_items = None
    /\ next_offset = None
    /\ emitted = 0
    /\ yielded = <<>>
    /\ fetched = <<>>
    /\ fetches = 0

\* with_options (lines 280-304), for a cache directory among `disks`, an
\* options.max_retries among `retries` and an options.offline among `offl`.
InitClient(disks, retries, offl) ==
    /\ memory_cache = EmptyMap
    /\ rate_limit = None
    /\ \E b \in offl : offline = [h \in Handles |-> b]
    /\ max_retries \in retries
    /\ disk \in disks
    /\ pending = <<>>
    /\ locks = NoLocks
    /\ now = 0
    /\ InitTask
    /\ InitStream

\* The executor against any server: one operation of a client that starts
\* online on an empty cache directory.
Init ==
    /\ InitClient({EmptyMap}, 0..MaxRetries, {FALSE})
    /\ retry_base_delay = RetryBaseDelay
    /\ cache_ttl = CacheTtl

Next ==
    \/ \E t \in Tasks, op \in Ops, p \in Paths :
          /\ calls = 0
          /\ MethodOf(op) = "GET" \/ p = "/tasks"
          /\ Call(t, op, p)
    \/ \E t \in Tasks : Execute(t, FullServer)
    \/ \E t \in Tasks : Deliver(t)
    \/ \E t \in Tasks : Consume(t)

Spec == Init /\ [][Next]_vars

\* The cache and the offline flag: any cache directory, a clock that moves
\* and a caller that toggles offline mode, for a client built with
\* max_retries = 1.
InitCache ==
    /\ InitClient(InitialDisks, {1}, BOOLEAN)
    /\ retry_base_delay = RetryBaseDelay
    /\ cache_ttl = CacheTtl

NextCache ==
    \/ \E t \in Tasks, op \in Ops : Call(t, op, "/users/me")
    \/ \E t \in Tasks : Execute(t, PlainServer)
    \/ \E t \in Tasks : Deliver(t)
    \/ \E t \in Tasks : Consume(t)
    \/ \E i \in 1..MaxCalls : MemInsert(i)
    \/ \E b \in BOOLEAN : set_offline(b)
    \/ Tick

SpecCache == InitCache /\ [][NextCache]_vars

\* The retry delays: one GET after another against a server whose 429s name
\* no Retry-After, for a client built with max_retries = MaxAttempt and any
\* retry_base_delay up to MaxBaseDelay.
BackoffServer ==
    Server({NoHeaders}, {NoHeaders}, {NoHeaders}, {401}, {503}, {"timeout"})

InitBackoff ==
    /\ InitClient({EmptyMap}, {MaxAttempt}, {FALSE})
    /\ retry_base_delay \in 1..MaxBaseDelay
    /\ cache_ttl = CacheTtl

NextBackoff ==
    \/ \E t \in Tasks : Call(t, "get_json", "/tasks")
    \/ \E t \in Tasks : Execute(t, BackoffServer)
    \/ \E t \in Tasks : Deliver(t)
    \/ \E t \in Tasks : Consume(t)

SpecBackoff == InitBackoff /\ [][NextBackoff]_vars

\* The cache key: one GET with any query of up to two pairs, in any order,
\* against a cache directory that is empty or holds a file written by an
\* earlier run for the same pairs in one order.
QueryPairs == {<<"limit", "a">>, <<"limit", "b">>, <<"opt_fields", "a">>}
QueryLists ==
    {<<>>} \cup {<<p>> : p \in QueryPairs}
           \cup {<<p, q>> : p \in QueryPairs, q \in QueryPairs}

KeyDisks ==
    { EmptyMap,
      Put(EmptyMap,
          build_cache_key("GET", "/tasks",
                          << <<"limit", "a">>, <<"opt_fields", "a">> >>),
          File(TRUE, DiskCacheEntry(1, Encode(FooBody)))) }

InitKey ==
    /\ InitClient(KeyDisks, {1}, {FALSE})
    /\ retry_base_delay = RetryBaseDelay
    /\ cache_ttl = CacheTtl

NextKey ==
    \/ \E t \in Tasks, p \in Paths, q \in QueryLists :
          /\ calls = 0
          /\ CallQuery(t, "get_json", p, q)
    \/ \E t \in Tasks : Execute(t, PlainServer)
    \/ \E t \in Tasks : Deliver(t)
    \/ \E t \in Tasks : Consume(t)

SpecKey == InitKey /\ [][NextKey]_vars

\* The age of cached bytes: a client built with a cache_ttl of one second
\* on a directory where an earlier client instance, with the same TTL,
\* left the response it fetched just before this one was built (tick 0 at
\* the latest, so the file expires at second 1).  The server of this run
\* never sends that body again.
OldBody == ArrayBody
TtlDisks ==
    { Put(EmptyMap, K0,
          File(TRUE, DiskCacheEntry(as_secs(TicksPerSec), Encode(OldBody)))) }

InitTtl ==
    /\ InitClient(TtlDisks, {1}, {FALSE})
    /\ retry_base_delay = RetryBaseDelay
    /\ cache_ttl = TicksPerSec

NextTtl ==
    \/ \E t \in Tasks : Call(t, "get_json", "/users/me")
    \/ \E t \in Tasks : Execute(t, PlainServer)
    \/ \E t \in Tasks : Deliver(t)
    \/ \E t \in Tasks : Consume(t)
    \/ \E i \in 1..MaxCalls : MemInsert(i)
    \/ Advance(2 * TicksPerSec)

SpecTtl == InitTtl /\ [][NextTtl]_vars

\* A shared cache directory: the client, which sends Token, is built on a
\* directory that is empty or holds the file that a client sending
\* OtherToken wrote for the same method, path and query.
SharedDisks ==
    { EmptyMap,
      Put(EmptyMap, build_cache_key("GET", SharedPath, <<>>),
          File(TRUE, DiskCacheEntry(1, Encode(WorkspacesOf(OtherToken))))) }

InitShared ==
    /\ InitClient(SharedDisks, {1}, {FALSE})
    /\ retry_base_delay = RetryBaseDelay
    /\ cache_ttl = CacheTtl

NextShared ==
    \/ \E t \in Tasks : Call(t, "get_json", SharedPath)
    \/ \E t \in Tasks : Execute(t, PlainServer)
    \/ \E t \in Tasks : Deliver(t)
    \/ \E t \in Tasks : Consume(t)

SpecShared == InitShared /\ [][NextShared]_vars

\* ----------------------------------------------------------- pagination

\* What paginate_with_limit is called with.
Limits == {None} \cup {Some(m) : m \in 0..MaxItems}
BaseQueries == {<<>>, << <<"opt_fields", "a">> >>}

\* An item of the stream: Ok(items) or Err(error).
Page(items) == [items |-> items, error |-> NoResult]
Failure(e) == [items |-> <<>>, error |-> e]

\* paginate_with_limit, lines 473-474: the stream takes a clone of the
\* client; Clone (lines 246-257) gives the clone an AtomicBool of its own,
\* set to the client's flag of that moment. The body runs when polled.
paginate_with_limit(query, limit) ==
    /\ st = "none"
    /\ \A t \in Tasks : pc[t] = "idle"
    /\ st' = "loop"
    /\ offline' = [offline EXCEPT !["stream"] = offline["client"]]
    /\ base_query' = query
    /\ max_items' = limit
    /\ next_offset' = None
    /\ emitted' = 0
    /\ yielded' = <<>>
    /\ fetched' = <<>>
    /\ fetches' = 0
    /\ UNCHANGED <<memory_cache, rate_limit, max_retries, retry_base_delay,
                   cache_ttl, disk, pending, locks, now, taskVars, http_log,
                   calls>>

\* A query that never carries the offset.
query_pairs_NoOffset == base_query

\* Lines 485-488: the query of the next page.
query_pairs ==
    IF IsSome(next_offset)
    THEN Append(base_query, <<"offset", Unwrap(next_offset)>>)
    ELSE base_query

\* A loop head that never checks the limit.
limit_reached_Never == FALSE

\* Lines 479-483: the check at the head of the loop.
limit_reached == IsSome(max_items) /\ emitted >= Unwrap(max_items)

\* A stream that hands on no item of any page.
truncate_Everything(items) == <<>>

\* A page handed on whole, whatever the limit.
truncate_Nothing(items) == items

\* Lines 513-517: items.truncate(max - emitted) when the page would
\* exceed the limit.
truncate(items) ==
    IF IsSome(max_items) /\ emitted + Len(items) > Unwrap(max_items)
    THEN SubSeq(items, 1, Unwrap(max_items) - emitted)
    ELSE items

\* Lines 520-521, for the new value of emitted.
continue_after_page(next_offset_candidate, total) ==
    /\ IsSome(next_offset_candidate)
    /\ (max_items = None \/ total < Unwrap(max_items))

\* Lines 477-492: the head of the loop, up to the call of
\* get_json_with_pairs.
StreamLoop(t) ==
    /\ st = "loop"
    /\ pc[t] = "idle"
    /\ IF limit_reached
       THEN /\ st' = "ended"
            /\ UNCHANGED <<taskVars, fetches>>
       ELSE /\ fetches < MaxFetches
            /\ fetches' = fetches + 1
            /\ st' = "fetching"
            /\ Begin(t, Request("paginate", "stream", ListPath, query_pairs))
    /\ UNCHANGED <<clientVars, disk, pending, locks, now, http_log, calls,
                   base_query, max_items, next_offset, emitted, yielded,
                   fetched>>

\* A fetch that hands the bytes on unparsed.
get_json_with_pairs_Unparsed(t) == result[t]

\* get_json_with_pairs::<ListResponse<T>>, once execute has returned.
get_json_with_pairs(t) ==
    IF result[t].tag = "Ok"
    THEN parse_response(req[t].path, result[t].bytes, TRUE)
    ELSE result[t]

\* Lines 493-530: the rest of the loop body, from the match on the
\* response to the yield and the decision to go on.
StreamResume(t) ==
    /\ st = "fetching"
    /\ pc[t] = "done"
    /\ LET response == get_json_with_pairs(t)
       IN  /\ fetched' = Append(fetched, [query_pairs |-> req[t].query_pairs,
                                          response |-> response])
           /\ IF response.tag = "Ok"
              THEN LET items == response.bytes.items
                       next_offset_candidate ==
                           IF response.bytes.next = NoTok THEN None
                           ELSE Some(response.bytes.next)
                       kept == truncate(items)
                       total == emitted + Len(kept)
                   IN  /\ emitted' = total
                       /\ yielded' = Append(yielded, Page(kept))
                       /\ IF continue_after_page(next_offset_candidate, total)
                          THEN /\ st' = "loop"
                               /\ next_offset' = next_offset_candidate
                          ELSE /\ st' = "ended"
                               /\ UNCHANGED next_offset
              ELSE IF /\ response.tag = "Http"
                      /\ response.status = 400
                      /\ is_offset_expired(response.details, response.message)
              THEN /\ st' = "ended"
                   /\ UNCHANGED <<emitted, yielded, next_offset>>
              ELSE /\ st' = "ended"
                   /\ yielded' = Append(yielded, Failure(response))
                   /\ UNCHANGED <<emitted, next_offset>>
    /\ pc' = [pc EXCEPT ![t] = "idle"]
    /\ req' = [req EXCEPT ![t] = NoRequest]
    /\ cache_key' = [cache_key EXCEPT ![t] = None]
    /\ attempt' = [attempt EXCEPT ![t] = 0]
    /\ result' = [result EXCEPT ![t] = NoResult]
    /\ reply' = [reply EXCEPT ![t] = NoResult]
    /\ UNCHANGED fd
    /\ sends' = [sends EXCEPT ![t] = 0]
    /\ slept' = [slept EXCEPT ![t] = <<>>]
    /\ outcomes' = [outcomes EXCEPT ![t] = <<>>]
    /\ last_resp' = [last_resp EXCEPT ![t] = NoResponse]
    /\ http_log' = <<>>
    /\ UNCHANGED <<clientVars, disk, pending, locks, now, calls, base_query,
                   max_items, fetches>>

\* A server that answers a page request with a page, a 400 or a 404, or
\* fails to connect.
PageServer ==
    Server({NoHeaders}, {NoHeaders}, {NoHeaders}, {401}, {400, 404},
           {"connect"})

\* One pagination stream over a client built with max_retries = 1 on an
\* empty cache directory, whose caller may toggle offline mode between
\* polls.
InitPag ==
    /\ InitClient({EmptyMap}, {1}, BOOLEAN)
    /\ retry_base_delay = RetryBaseDelay
    /\ cache_ttl = CacheTtl

NextPag ==
    \/ \E q \in BaseQueries, m \in Limits : paginate_with_limit(q, m)
    \/ \E t \in Tasks : StreamLoop(t)
    \/ \E t \in Tasks : Execute(t, PageServer)
    \/ \E t \in Tasks : StreamResume(t)
    \/ \E b \in BOOLEAN : set_offline(b)

SpecPag == InitPag /\ [][NextPag]_vars

\* The bodies of 2xx responses: operations of every kind on BodyPath, or
\* an unlimited stream, for a client built with max_retries = 1 on a cache
\* directory that is empty or holds an earlier run's file of the list
\* endpoint with an empty body.
BodyDisks ==
    { EmptyMap,
      Put(EmptyMap, build_cache_key("GET", ListPath, <<>>),
          File(TRUE, DiskCacheEntry(1, Encode(EmptyBody)))) }

InitBody ==
    /\ InitClient(BodyDisks, {1}, {FALSE})
    /\ retry_base_delay = RetryBaseDelay
    /\ cache_ttl = CacheTtl

NextBody ==
    \/ \E t \in Tasks, op \in Ops : Call(t, op, BodyPath)
    \/ \E t \in Tasks : Deliver(t)
    \/ \E t \in Tasks : Consume(t)
    \/ calls = 0 /\ paginate_with_limit(<<>>, None)
    \/ \E t \in Tasks : StreamLoop(t)
    \/ \E t \in Tasks : Execute(t, PageServer)
    \/ \E t \in Tasks : StreamResume(t)

SpecBody == InitBody /\ [][NextBody]_vars

\* ------------------------------------------------------------ concurrency

\* Below, execute is taken apart at its await points, so that the steps of
\* the two Callers and of the spawned inserts interleave.

\* A cache file that File::create has truncated and nobody has written, and
\* one that holds the start of one entry followed by the tail of a longer
\* one: neither parses as a DiskCacheEntry.
EmptyFile == File(FALSE, DiskCacheEntry(0, <<"empty", EmptyBody>>))
TornFile == File(FALSE, DiskCacheEntry(0, <<"torn", EmptyBody>>))

\* execute, line 584: the key of the request.
RequestKey(t) ==
    build_cache_key(req[t].method, req[t].path, req[t].query_pairs)

\* execute, lines 586-595: get_from_cache returned None.
Miss(t) ==
    /\ cache_key' = [cache_key EXCEPT ![t] = Some(RequestKey(t))]
    /\ IF is_offline(req[t].handle)
       THEN Return(t, ErrOffline(req[t].path))
       ELSE /\ pc' = [pc EXCEPT ![t] = "send"]
            /\ UNCHANGED <<result, attempt, slept>>

\* get_from_cache, line 718: memory_cache.read().await gives the guard.
get_from_cache_lock(t) ==
    /\ pc[t] = "lookup"
    /\ locks.cache_writer = None
    /\ locks' = [locks EXCEPT !.cache_readers = @ \cup {t}]
    /\ pc' = [pc EXCEPT ![t] = "memory"]
    /\ UNCHANGED <<clientVars, disk, pending, now, req, cache_key, attempt,
                   result, reply, fd, sends, slept, outcomes, last_resp,
                   http_log, calls, streamVars>>

\* get_from_cache, lines 717-725: the entry is read under the guard, which
\* is dropped at the end of the block; fs::read is awaited next.
get_from_cache_memory(t) ==
    /\ pc[t] = "memory"
    /\ locks' = [locks EXCEPT !.cache_readers = @ \ {t}]
    /\ IF MemoryHit(RequestKey(t))
       THEN Return(t, Ok(memory_cache[RequestKey(t)].value, "memory"))
       ELSE /\ pc' = [pc EXCEPT ![t] = "file"]
            /\ UNCHANGED <<result, attempt, slept>>
    /\ UNCHANGED <<clientVars, disk, pending, now, req, cache_key, reply, fd,
                   sends, outcomes, last_resp, http_log, calls, streamVars>>

\* get_from_cache, lines 727-757: fs::read has returned.  A missing file
\* is a miss, a fresh entry is promoted and served, and any other file is
\* to be removed (remove_file is awaited next).
get_from_cache_file(t) ==
    /\ pc[t] = "file"
    /\ LET key == RequestKey(t)
       IN  IF key \notin DOMAIN disk
           THEN Miss(t) /\ UNCHANGED pending
           ELSE IF DiskHit(key)
           THEN /\ pending' = store_in_memory(pending, key,
                                  Unwrap(Decode(disk[key].entry.body)))
                /\ Return(t, Ok(Unwrap(Decode(disk[key].entry.body)), "disk"))
                /\ UNCHANGED cache_key
           ELSE /\ pc' = [pc EXCEPT ![t] = "unlink"]
                /\ UNCHANGED <<pending, cache_key, result, attempt, slept>>
    /\ UNCHANGED <<clientVars, disk, locks, now, req, reply, fd, sends,
                   outcomes, last_resp, http_log, calls, streamVars>>

\* get_from_cache, lines 741, 745 and 750: remove_file has returned (its
\* error is dropped).  A task that has the removed file open keeps writing
\* to a file no path leads to.
get_from_cache_remove(t) ==
    /\ pc[t] = "unlink"
    /\ disk' = Remove(disk, RequestKey(t))
    /\ fd' = [u \in DOMAIN fd |->
                 IF /\ fd[u] = "open"
                    /\ RequestKey(t) \in DOMAIN disk
                    /\ cache_key[u] = Some(RequestKey(t))
                 THEN "unlinked" ELSE fd[u]]
    /\ Miss(t)
    /\ UNCHANGED <<clientVars, pending, locks, now, req, reply, sends,
                   outcomes, last_resp, http_log, calls, streamVars>>

\* execute after the rate-limit snapshot of a 2xx (lines 632-636) or of a
\* 429 (lines 645-659).
Proceed(t, resp) ==
    IF resp.status = 429
    THEN LET retry_after == IF IsSome(parse_retry_after(resp.headers))
                            THEN Unwrap(parse_retry_after(resp.headers))
                            ELSE backoff_delay(attempt[t])
         IN  IF attempt[t] < max_retries
             THEN Sleep(t, retry_after)
             ELSE Return(t, ErrRateLimited(retry_after, resp.body))
    ELSE IF IsSome(cache_key[t])
    THEN /\ pc' = [pc EXCEPT ![t] = "store"]
         /\ UNCHANGED <<result, attempt, slept>>
    ELSE Return(t, Ok(resp.body, "network"))

\* execute, lines 625-628 and 640-641: a 2xx or a 429 has arrived; with
\* rate-limit headers, rate_limit.write() is awaited next.
Received(t, class, resp) ==
    /\ pc[t] = "inflight"
    /\ Ended(t, class, resp)
    /\ IF IsSome(extract_rate_limit_headers(resp.headers))
       THEN /\ pc' = [pc EXCEPT ![t] = "rate_lock"]
            /\ UNCHANGED <<result, attempt, slept>>
       ELSE Proceed(t, resp)
    /\ UNCHANGED <<clientVars, disk, pending, locks, now, req, reply, fd,
                   cache_key, sends, http_log, calls, streamVars>>

\* execute, lines 629 and 642: rate_limit.write().await gives the guard.
rate_limit_lock(t) ==
    /\ pc[t] = "rate_lock"
    /\ locks.rate_writer = None
    /\ locks' = [locks EXCEPT !.rate_writer = Some(t)]
    /\ pc' = [pc EXCEPT ![t] = "rate_held"]
    /\ UNCHANGED <<clientVars, disk, pending, now, req, cache_key, attempt,
                   result, reply, fd, sends, slept, outcomes, last_resp,
                   http_log, calls, streamVars>>

\* A guard of rate_limit that lives to the end of execute.
rate_limit_assign_Held(t) ==
    /\ pc[t] = "rate_held"
    /\ rate_limit' = extract_rate_limit_headers(last_resp[t].headers)
    /\ Proceed(t, last_resp[t])
    /\ UNCHANGED <<memory_cache, offline, max_retries, retry_base_delay,
                   cache_ttl, disk, pending, locks, now, req, reply, fd,
                   cache_key, sends, outcomes, last_resp, http_log, calls,
                   streamVars>>

\* execute, lines 630-631 and 643-644: the snapshot is assigned and the
\* guard dropped at the end of the block.
rate_limit_assign(t) ==
    /\ pc[t] = "rate_held"
    /\ rate_limit' = extract_rate_limit_headers(last_resp[t].headers)
    /\ locks' = [locks EXCEPT !.rate_writer = None]
    /\ Proceed(t, last_resp[t])
    /\ UNCHANGED <<memory_cache, offline, max_retries, retry_base_delay,
                   cache_ttl, disk, pending, now, req, reply, fd, cache_key,
                   sends, outcomes, last_resp, http_log, calls, streamVars>>

\* write_cache, lines 761-783: store_in_memory spawns the insert;
\* create_dir_all is awaited next.
write_cache_store(t) ==
    /\ pc[t] = "store"
    /\ pending' = store_in_memory(pending, Unwrap(cache_key[t]),
                                  last_resp[t].body)
    /\ pc' = [pc EXCEPT ![t] = "create"]
    /\ UNCHANGED <<clientVars, disk, locks, now, req, cache_key, attempt,
                   result, reply, fd, sends, slept, outcomes, last_resp,
                   http_log, calls, streamVars>>

\* write_cache, line 786: fs::write opens the file, which creates it or
\* cuts it to no bytes.
write_cache_create(t) ==
    /\ pc[t] = "create"
    /\ disk' = Put(disk, Unwrap(cache_key[t]), EmptyFile)
    /\ fd' = [fd EXCEPT ![t] = "open"]
    /\ pc' = [pc EXCEPT ![t] = "write"]
    /\ UNCHANGED <<clientVars, pending, locks, now, req, cache_key, attempt,
                   result, reply, sends, slept, outcomes, last_resp, http_log,
                   calls, streamVars>>

\* The file after a task has written `mine` from offset 0 into a file that
\* held `theirs`: its own entry, or, over a longer entry of another
\* response (`torn`), its own entry followed by the tail of that one.
Overwritten(theirs, mine, torn) ==
    IF torn /\ theirs # EmptyFile /\ theirs # mine THEN TornFile ELSE mine

\* write_cache, lines 786-789: fs::write writes the entry and closes the
\* file, and execute returns the bytes (line 636).
write_cache_write(t, torn) ==
    /\ pc[t] = "write"
    /\ LET key == Unwrap(cache_key[t])
       IN  disk' = IF fd[t] = "open"
                   THEN Put(disk, key,
                            Overwritten(disk[key],
                                        WrittenFile(last_resp[t].body), torn))
                   ELSE disk
    /\ fd' = [fd EXCEPT ![t] = "closed"]
    /\ Return(t, Ok(last_resp[t].body, "network"))
    /\ UNCHANGED <<clientVars, pending, locks, now, req, cache_key, reply,
                   sends, outcomes, last_resp, http_log, calls, streamVars>>

\* store_in_memory, line 799: the spawned task is given the write guard.
insert_lock(i) ==
    /\ i \in DOMAIN pending
    /\ locks.cache_writer = None
    /\ locks.cache_readers = {}
    /\ locks' = [locks EXCEPT !.cache_writer = Some(i)]
    /\ UNCHANGED <<clientVars, disk, pending, now, taskVars, http_log, calls,
                   streamVars>>

\* store_in_memory, lines 800-801: the insert, and the guard is dropped.
insert_run(i) ==
    /\ locks.cache_writer = Some(i)
    /\ memory_cache' = Put(memory_cache, pending[i].key, pending[i].entry)
    /\ pending' = [j \in 1..(Len(pending) - 1) |->
                      IF j < i THEN pending[j] ELSE pending[j + 1]]
    /\ locks' = [locks EXCEPT !.cache_writer = None]
    /\ UNCHANGED <<rate_limit, offline, max_retries, retry_base_delay,
                   cache_ttl, disk, now, taskVars, http_log, calls,
                   streamVars>>

\* The headers of a 2xx and of a 429 when two tasks run.
ConcHeaders == {NoHeaders, MkHeaders(Some(150), Some(0), None, Some(0))}

InitConc ==
    /\ InitClient({EmptyMap}, {1}, {FALSE})
    /\ retry_base_delay = RetryBaseDelay
    /\ cache_ttl = CacheTtl

NextConc ==
    \/ \E t \in Callers : Call(t, "get_json", "/users/me")
    \/ \E t \in Callers : get_from_cache_lock(t)
    \/ \E t \in Callers : get_from_cache_memory(t)
    \/ \E t \in Callers : get_from_cache_file(t)
    \/ \E t \in Callers : get_from_cache_remove(t)
    \/ \E t \in Callers : Send(t)
    \/ \E t \in Callers, h \in ConcHeaders :
          \E b \in SuccessBodies(req[t].path) :
             Received(t, "2xx", Response(200, h, b))
    \/ \E t \in Callers, h \in ConcHeaders :
          Received(t, "429", Response(429, h, EmptyBody))
    \/ \E t \in Callers : rate_limit_lock(t)
    \/ \E t \in Callers : rate_limit_assign(t)
    \/ \E t \in Callers : Wake(t)
    \/ \E t \in Callers : write_cache_store(t)
    \/ \E t \in Callers : write_cache_create(t)
    \/ \E t \in Callers, torn \in BOOLEAN : write_cache_write(t, torn)
    \/ \E i \in 1..(2 * MaxCalls) : insert_lock(i)
    \/ \E i \in 1..(2 * MaxCalls) : insert_run(i)

SpecConc == InitConc /\ [][NextConc]_vars

\* --------------------------------------------------------------- claims

\* The classes of failure the executor retries.
Transient == {"transport", "429", "5xx"}

AllTransient(t) ==
    /\ outcomes[t] # <<>>
    /\ \A i \in DOMAIN outcomes[t] : outcomes[t][i] \in Transient

\* C1: with max_retries = R, a request never sends more than R + 1 times,
\* and one whose every attempt ended in a transient failure (5xx, 429,
\* timeout or connect error, in any mix) stops only after exactly R + 1
\* sends, with a terminal error.
C1_RetryCeiling ==
    \A t \in Tasks :
        /\ sends[t] <= max_retries + 1
        /\ (AllTransient(t) /\ Len(outcomes[t]) = max_retries + 1) =>
              pc[t] = "done"
        /\ (AllTransient(t) /\ pc[t] = "done") =>
              /\ sends[t] = max_retries + 1
              /\ result[t].tag \in {"Network", "RateLimited", "Http"}

\* A request that met all three classes and gave up after MaxRetries + 1
\* sends.
C1_Witness ==
    \E t \in Tasks :
        /\ pc[t] = "done"
        /\ AllTransient(t)
        /\ max_retries = MaxRetries
        /\ {outcomes[t][i] : i \in DOMAIN outcomes[t]} = Transient

\* C2: an attempt answered 401 or 403 is the last one: execute returns
\* Authentication with that response's body, sends nothing more and never
\* sleeps after it; a first response of 401 means exactly one send.
C2_AuthNotRetried ==
    \A t \in Tasks :
        \A i \in DOMAIN outcomes[t] :
            outcomes[t][i] = "auth" =>
                /\ i = Len(outcomes[t])
                /\ pc[t] = "done"
                /\ last_resp[t].status \in {401, 403}
                /\ result[t] = ErrAuthentication(last_resp[t].body)
                /\ sends[t] = i
                /\ Len(slept[t]) = i - 1

\* A 401 on the first attempt of a client that had retries left.
C2_Witness ==
    \E t \in Tasks :
        /\ outcomes[t] = <<"auth">>
        /\ last_resp[t] = Response(401, NoHeaders, TextBody(<<"denied">>))
        /\ max_retries = MaxRetries
        /\ sends[t] = 1

\* The cache key of the request of task t.
KeyOf(t) == build_cache_key(req[t].method, req[t].path, req[t].query_pairs)

\* The bytes of the unexpired entry of a key, in either tier.
MemoryFresh(key) ==
    key \in DOMAIN memory_cache /\ now < memory_cache[key].expires_at
DiskFresh(key) ==
    /\ key \in DOMAIN disk
    /\ disk[key].json_ok
    /\ disk[key].entry.body[1] = "b64"
    /\ now <= disk[key].entry.expires_at * TicksPerSec
\* The memory tier is asked first.
CachedBytes(key) ==
    IF MemoryFresh(key) THEN {memory_cache[key].value}
    ELSE IF DiskFresh(key) THEN {disk[key].entry.body[2]}
    ELSE {}

\* A lookup step of task t.
LookupStep(t) == pc[t] = "lookup" /\ pc'[t] # "lookup"

\* C3: a GET whose key has an unexpired entry in the memory or the disk
\* tier returns those cached bytes from the lookup itself: nothing is sent,
\* the retry loop is not entered, online and offline alike.
C3_CacheFastPath ==
    [][\A t \in Tasks :
          (LookupStep(t) /\ CachedBytes(KeyOf(t)) # {}) =>
              /\ pc'[t] = "done"
              /\ result'[t].tag = "Ok"
              /\ result'[t].bytes \in CachedBytes(KeyOf(t))
              /\ sends'[t] = 0
              /\ slept'[t] = <<>>
              /\ http_log' = http_log]_vars

\* An offline GET answered from the disk tier with what an online GET of
\* the same client fetched.
C3_Witness ==
    \E t \in Tasks :
        /\ pc[t] = "done"
        /\ offline[req[t].handle]
        /\ result[t] = Ok(FooBody, "disk")
        /\ sends[t] = 0

\* C4: an offline GET whose lookup misses fails with Offline naming the
\* path; nothing is sent, nothing sleeps, the rate-limit snapshot stays.
C4_OfflineMiss ==
    [][\A t \in Tasks :
          (LookupStep(t) /\ CachedBytes(KeyOf(t)) = {}
              /\ offline[req[t].handle]) =>
              /\ pc'[t] = "done"
              /\ result'[t] = ErrOffline(req[t].path)
              /\ sends'[t] = 0
              /\ slept'[t] = <<>>
              /\ http_log' = http_log
              /\ rate_limit' = rate_limit]_vars

\* An offline GET that found its file expired, on a client that holds a
\* rate-limit snapshot.
C4_Witness ==
    \E t \in Tasks :
        /\ pc[t] = "done"
        /\ result[t].tag = "Offline"
        /\ result[t].resource = "/users/me"
        /\ rate_limit # None
        /\ calls = MaxCalls

\* C5: no HTTP request is sent by a client whose is_offline() is true.
C5_OfflineSendsNothing ==
    \A i \in DOMAIN http_log : ~http_log[i].offline

\* C6: a request that a pagination stream makes observes the offline
\* value last set on the client the stream was created from.
C6_StreamObservesSetOffline ==
    \A t \in Tasks :
        (pc[t] # "idle" /\ req[t].handle = "stream") =>
            is_offline(req[t].handle) = offline["client"]

\* What the k-th fetch of the stream returned, when it is a page.
IsPage(k) == fetched[k].response.tag = "Ok"
ItemsOf(k) == fetched[k].response.bytes.items
TokenOf(k) == fetched[k].response.bytes.next

\* C7: in a stream with no limit, the k-th request carries the base query,
\* followed for k > 1 by offset = the token of page k - 1; the pages come
\* out whole and in order; a page with a token is followed by another
\* request, and the page without one ends the stream: no error item, no
\* request after it.
C7_NormalTermination ==
    (st # "none" /\ max_items = None) =>
        /\ \A k \in DOMAIN fetched :
              /\ fetched[k].query_pairs =
                    IF k = 1 THEN base_query
                    ELSE Append(base_query, <<"offset", TokenOf(k - 1)>>)
              /\ IsPage(k) => /\ k \in DOMAIN yielded
                              /\ yielded[k] = Page(ItemsOf(k))
              /\ (IsPage(k) /\ TokenOf(k) # NoTok) =>
                    /\ st # "ended" \/ k < Len(fetched)
                    /\ st = "loop" => next_offset = Some(TokenOf(Len(fetched)))
              /\ (IsPage(k) /\ TokenOf(k) = NoTok) =>
                    /\ k = Len(fetched)
                    /\ st = "ended"
                    /\ fetches = k
                    /\ Len(yielded) = k
                    /\ \A j \in 1..k : yielded[j].error = NoResult
        /\ fetches - Len(fetched) = (IF st = "fetching" THEN 1 ELSE 0)

\* Three pages under tokens a and b, over a base query that is not empty.
C7_Witness ==
    /\ st = "ended"
    /\ max_items = None
    /\ base_query # <<>>
    /\ Len(fetched) = 3
    /\ \A k \in 1..3 : IsPage(k)
    /\ TokenOf(1) = "a" /\ TokenOf(2) = "b" /\ TokenOf(3) = NoTok
    /\ yielded = <<Page(<<"i1", "i2">>), Page(<<>>), Page(<<"i1">>)>>

\* The text of an error names an expired offset: "offset" together with
\* "expired" or "invalid", whatever the case.
NamesExpiredOffset(text) ==
    /\ \E i \in DOMAIN text : LowerWord(text[i]) = "offset"
    /\ \E i \in DOMAIN text : LowerWord(text[i]) \in {"expired", "invalid"}

ExpiredOffsetError(r) ==
    \/ NamesExpiredOffset(r.message)
    \/ /\ IsSome(r.details)
       /\ \E i \in DOMAIN Unwrap(r.details).msgs :
             NamesExpiredOffset(Unwrap(r.details).msgs[i])

\* The stream takes the result of a fetch.
ResumeStep == st = "fetching" /\ st' # "fetching"

\* C8: a page fetch that fails with HTTP 400 ends the stream. When the
\* error names an expired offset, nothing is delivered for it and what was
\* yielded stays as it was; any other 400 is delivered as an error item.
\* An ended stream requests nothing more.
C8_TokenExpiry ==
    [][/\ \A t \in Tasks :
             (ResumeStep /\ result[t].tag = "Http" /\ result[t].status = 400) =>
                 /\ st' = "ended"
                 /\ yielded' = IF ExpiredOffsetError(result[t]) THEN yielded
                               ELSE Append(yielded, Failure(result[t]))
                 /\ emitted' = emitted
       /\ st = "ended" => /\ st' = "ended"
                          /\ fetches' = fetches
                          /\ http_log' = http_log
                          /\ yielded' = yielded]_vars

\* A stream that yielded one page, met an "Offset EXPIRED" on the second
\* fetch and ended with that page alone.
C8_Witness ==
    /\ st = "ended"
    /\ Len(fetched) = 2
    /\ fetched[2].response.tag = "Http"
    /\ fetched[2].response.status = 400
    /\ fetched[2].response.message = <<"Offset", "EXPIRED">>
    /\ yielded = <<Page(<<"i1", "i2">>)>>

RECURSIVE Count(_, _)
\* The items of the first n pages of a sequence of item lists.
Count(pages, n) == IF n = 0 THEN 0 ELSE Count(pages, n - 1) + Len(pages[n])

YieldedItems == [k \in DOMAIN yielded |-> yielded[k].items]

\* C9: under max_items = Some(m) the stream never yields more than m items
\* in all; each page comes out as its first (m - yielded so far) items, so
\* whole while it fits; once the pages fetched hold m items or more, exactly
\* m have been yielded.
C9_LimitTruncation ==
    IsSome(max_items) =>
        LET m == Unwrap(max_items)
            pages == {k \in DOMAIN fetched : IsPage(k)}
            supplied == [k \in 1..Len(yielded) |->
                            IF IsPage(k) THEN ItemsOf(k) ELSE <<>>]
        IN  /\ emitted = Count(YieldedItems, Len(yielded))
            /\ emitted <= m
            /\ \A k \in pages :
                  /\ k \in DOMAIN yielded
                  /\ yielded[k] =
                        Page(SubSeq(ItemsOf(k), 1,
                                    Min(Len(ItemsOf(k)),
                                        m - Count(YieldedItems, k - 1))))
            /\ Count(supplied, Len(yielded)) >= m => emitted = m

\* max_items = 3 over pages of sizes 2 and 2: a page of 2, then a page of 1.
C9_Witness ==
    /\ max_items = Some(3)
    /\ Len(fetched) = 2
    /\ IsPage(1) /\ IsPage(2)
    /\ Len(ItemsOf(1)) = 2 /\ Len(ItemsOf(2)) = 2
    /\ yielded = <<Page(<<"i1", "i2">>), Page(<<"i1">>)>>
    /\ st = "ended"

\* C10: once the items yielded have reached max_items, the stream starts
\* no fetch and sends nothing, whatever token the last page carried; under
\* max_items = Some(0) it never requests and never yields.
C10_StopsAtLimit ==
    /\ [](max_items = Some(0) =>
             fetches = 0 /\ yielded = <<>> /\ http_log = <<>>)
    /\ []((IsSome(max_items) /\ emitted >= Unwrap(max_items)) =>
             \A t \in Tasks : pc[t] = "idle")
    /\ [][(IsSome(max_items) /\ emitted >= Unwrap(max_items)) =>
             /\ fetches' = fetches
             /\ http_log' = http_log
             /\ yielded' = yielded
             /\ st' \in {st, "ended"}]_vars

\* A stream stopped at max_items = 2 by a page of two items that carried a
\* token.
C10_Witness ==
    /\ max_items = Some(2)
    /\ st = "ended"
    /\ emitted = 2
    /\ fetches = 1
    /\ IsPage(1) /\ TokenOf(1) = "a" /\ Len(ItemsOf(1)) = 2

\* What a page fetch of task t comes to: the error of execute, or what the
\* parse of its bytes as a list response gives.
FetchOutcome(t) ==
    IF result[t].tag = "Ok"
    THEN parse_response(req[t].path, result[t].bytes, TRUE)
    ELSE result[t]

\* C11: a page fetch that fails with anything but the 400 of an expired
\* offset makes the stream deliver that error as its next item and end; an
\* error item is the last item of the stream, after which nothing is
\* requested.
C11_OtherFailures ==
    /\ [](\A k \in DOMAIN yielded :
             yielded[k].error # NoResult =>
                 /\ k = Len(yielded)
                 /\ st = "ended"
                 /\ \A t \in Tasks : pc[t] = "idle")
    /\ [][\A t \in Tasks :
             (/\ ResumeStep
              /\ FetchOutcome(t).tag # "Ok"
              /\ ~(/\ FetchOutcome(t).tag = "Http"
                   /\ FetchOutcome(t).status = 400
                   /\ ExpiredOffsetError(FetchOutcome(t)))) =>
                 /\ st' = "ended"
                 /\ yielded' = Append(yielded, [items |-> <<>>,
                                                error |-> FetchOutcome(t)])
                 /\ fetches' = fetches]_vars

\* A stream that yielded a page and then the Deserialize error of a second
\* page whose `data` is no list.
C11_Witness ==
    /\ st = "ended"
    /\ Len(yielded) = 2
    /\ yielded[1] = Page(<<"i1">>)
    /\ yielded[2].error = ErrDeserialize
    /\ fetched[2].query_pairs = <<<<"offset", "b">>>>
    /\ fetches = 2

\* The rate-limit headers of a response as the program reads them: a
\* Retry-After that is no non-negative number of seconds reads as absent.
Readable(h) ==
    MkHeaders(h.limit, h.remaining, h.reset,
              IF IsSome(h.retry_after) /\ Unwrap(h.retry_after) >= 0
              THEN Some(Unwrap(h.retry_after) * TicksPerSec)
              ELSE None)

\* Task t receives an HTTP response in this step.
ResponseStep(t) ==
    /\ Len(outcomes'[t]) = Len(outcomes[t]) + 1
    /\ last_resp'[t].status # 0

\* The snapshot after a step, when only a 2xx or a 429 with a readable
\* header replaces it.
SnapshotAfter ==
    IF \E t \in Tasks : /\ ResponseStep(t)
                        /\ last_resp'[t].status \in {200, 429}
                        /\ Readable(last_resp'[t].headers) # NoHeaders
    THEN LET t == CHOOSE u \in Tasks : ResponseStep(u)
         IN  Some(Readable(last_resp'[t].headers))
    ELSE rate_limit

\* C12 (amended): the snapshot is None until a 2xx or a 429 brings a
\* rate-limit header that can be read, and then holds the headers of the
\* latest such response, replaced as a whole; every other step, a 2xx or
\* 429 with no readable header included, leaves it as it was.
C12_LatestSnapshot ==
    /\ rate_limit = None
    /\ [][rate_limit' = SnapshotAfter]_vars

\* A 429 with limit, remaining and Retry-After, then a 2xx with limit and
\* remaining only: the snapshot has no retry_after left.
C12_Witness ==
    \E t \in Tasks :
        /\ outcomes[t] = <<"429", "2xx">>
        /\ slept[t] = <<2 * TicksPerSec>>
        /\ rate_limit = Some(MkHeaders(Some(150), Some(149), None, None))

\* C12 as stated: every 2xx or 429 that carries one of the four headers,
\* readable or not, replaces the snapshot by its values.
C12_AnyHeaderReplaces ==
    [][\A t \in Tasks :
          (/\ ResponseStep(t)
           /\ last_resp'[t].status \in {200, 429}
           /\ last_resp'[t].headers # NoHeaders) =>
              rate_limit' = Some(Readable(last_resp'[t].headers))]_vars

\* C13 (amended): a response that carries a readable rate-limit header
\* replaces the snapshot when its status is 2xx or 429, and leaves it as it
\* was when it is 401, 403, 5xx or another 4xx.
C13_UpdatedOn2xxAnd429Only ==
    [][\A t \in Tasks :
          (ResponseStep(t) /\ Readable(last_resp'[t].headers) # NoHeaders) =>
              rate_limit' = IF last_resp'[t].status \in {200, 429}
                            THEN Some(Readable(last_resp'[t].headers))
                            ELSE rate_limit]_vars

\* A 401 that carried limit and remaining after a 429 did: the snapshot is
\* still that of the 429.
C13_Witness ==
    \E t \in Tasks :
        /\ outcomes[t] = <<"429", "auth">>
        /\ last_resp[t].headers = MkHeaders(Some(150), Some(7), None, None)
        /\ rate_limit =
              Some(MkHeaders(Some(150), Some(0), None, Some(2 * TicksPerSec)))

\* C13 as stated: a response that carries a readable rate-limit header
\* replaces the snapshot whatever its status.
C13_UpdatedOnEveryResponse ==
    [][\A t \in Tasks :
          (ResponseStep(t) /\ Readable(last_resp'[t].headers) # NoHeaders) =>
              rate_limit' = Some(Readable(last_resp'[t].headers))]_vars

\* The exponential backoff of attempt a on a base delay: base * 2^a, and the
\* base alone when 2^a has no place in the multiplier or the product none
\* in a Duration.
Exponential(base, a) ==
    IF a < MultiplierBits /\ base * 2 ^ a <= DurationMax
    THEN base * 2 ^ a
    ELSE base

\* The wait a 429 asks for at attempt a: its Retry-After when that is a
\* non-negative number of seconds, the exponential backoff otherwise.
WaitOf(resp, a) ==
    IF /\ IsSome(resp.headers.retry_after)
       /\ Unwrap(resp.headers.retry_after) >= 0
    THEN Unwrap(resp.headers.retry_after) * TicksPerSec
    ELSE Exponential(retry_base_delay, a)

\* C14: after a 429 at attempt a, the call sleeps exactly the wait of that
\* response when a < max_retries, and when a = max_retries it returns
\* RateLimited with that wait and the body of this last 429.
C14_WaitDuration ==
    \A t \in Tasks :
        (/\ outcomes[t] # <<>>
         /\ outcomes[t][Len(outcomes[t])] = "429"
         /\ pc[t] \in {"sleep", "done"}) =>
            IF attempt[t] < max_retries
            THEN /\ pc[t] = "sleep"
                 /\ result[t] = NoResult
                 /\ slept[t] # <<>>
                 /\ slept[t][Len(slept[t])] = WaitOf(last_resp[t], attempt[t])
            ELSE /\ pc[t] = "done"
                 /\ attempt[t] = max_retries
                 /\ result[t] = ErrRateLimited(WaitOf(last_resp[t], attempt[t]),
                                               last_resp[t].body)

\* Two 429s for a client with max_retries = 1: the first, with
\* Retry-After: 2, was slept for two seconds; the second, with no header and
\* an empty body, ends the call with the backoff of attempt 1.
C14_Witness ==
    \E t \in Tasks :
        /\ max_retries = 1
        /\ outcomes[t] = <<"429", "429">>
        /\ slept[t] = <<2 * TicksPerSec>>
        /\ last_resp[t] = Response(429, NoHeaders, EmptyBody)
        /\ result[t] = ErrRateLimited(2 * RetryBaseDelay, EmptyBody)

\* C15: with no Retry-After in play, the delay slept after attempt a is
\* base * 2^a while 2^a fits the multiplier and the product fits a
\* Duration, and the base alone otherwise; it is never zero and never a
\* wrapped value.
C15_BackoffGrowth ==
    \A t \in Tasks : \A i \in DOMAIN slept[t] :
        /\ slept[t][i] = Exponential(retry_base_delay, i - 1)
        /\ slept[t][i] >= retry_base_delay
        /\ slept[t][i] > 0
        /\ slept[t][i] <= DurationMax

\* The largest base delay through every attempt: doubled once, then the
\* product no longer fits, then the shift no longer fits.
C15_Witness ==
    \E t \in Tasks :
        /\ retry_base_delay = MaxBaseDelay
        /\ Len(slept[t]) = MaxAttempt
        /\ slept[t][2] = 2 * MaxBaseDelay
        /\ slept[t][3] = MaxBaseDelay
        /\ slept[t][MaxAttempt] = MaxBaseDelay
        /\ MaxAttempt > MultiplierBits

\* How many times a pair occurs in a query.
Occurrences(p, q) == Cardinality({i \in DOMAIN q : q[i] = p})

\* Two queries with the same pairs the same number of times.
SameBag(q1, q2) ==
    /\ Len(q1) = Len(q2)
    /\ \A i \in DOMAIN q1 : Occurrences(q1[i], q1) = Occurrences(q1[i], q2)

\* C16: the key of a request is the key of every permutation of its query
\* pairs under the same method and path, and of no request that differs in
\* method, in path or in the multiset of its pairs.
C16_KeyDeterminism ==
    \A t \in Tasks :
        IsSome(cache_key[t]) =>
            \A m \in {"GET", "POST", "PUT", "DELETE"}, p \in Paths,
               q \in QueryLists :
                (build_cache_key(m, p, q) = Unwrap(cache_key[t])) <=>
                    /\ m = req[t].method
                    /\ p = req[t].path
                    /\ SameBag(q, req[t].query_pairs)

\* The file an earlier run wrote for (limit, opt_fields) answers a GET that
\* names opt_fields first: nothing is sent.
C16_Witness ==
    \E t \in Tasks :
        /\ req[t].query_pairs = << <<"opt_fields", "a">>, <<"limit", "a">> >>
        /\ result[t] = Ok(FooBody, "disk")
        /\ sends[t] = 0

\* C17: once a 2xx with body B has been received for a cacheable GET and
\* written to the cache, a lookup of the same key made at once returns B:
\* in the same client, whether or not the spawned memory insert has run,
\* and from the file alone, as a fresh client on the directory reads it.
C17_CacheRoundTrip ==
    \A t \in Tasks :
        (/\ pc[t] = "done"
         /\ result[t].tag = "Ok"
         /\ result[t].tier = "network"
         /\ IsSome(cache_key[t])) =>
            /\ CachedBytes(Unwrap(cache_key[t])) = {result[t].bytes}
            /\ DiskFresh(Unwrap(cache_key[t]))
            /\ disk[Unwrap(cache_key[t])].entry.body[2] = result[t].bytes

\* C18: a lookup that finds no unexpired memory entry and a file that is
\* expired, does not parse or does not decode removes the file and reports
\* a miss, not an error: online the GET goes on to the network with its
\* key, offline it ends as any miss does.
C18_ExpiredOrCorruptFile ==
    [][\A t \in Tasks :
          (/\ LookupStep(t)
           /\ ~MemoryFresh(KeyOf(t))
           /\ KeyOf(t) \in DOMAIN disk
           /\ ~DiskFresh(KeyOf(t))) =>
              /\ KeyOf(t) \notin DOMAIN disk'
              /\ cache_key'[t] = Some(KeyOf(t))
              /\ IF offline[req[t].handle]
                 THEN pc'[t] = "done" /\ result'[t] = ErrOffline(req[t].path)
                 ELSE pc'[t] = "send" /\ result'[t] = NoResult]_vars

\* The second GET of a client found the file of the first one expired: the
\* file is gone and the request is about to be sent.
C18_Witness ==
    \E t \in Tasks :
        /\ calls = 2
        /\ pc[t] = "send"
        /\ sends[t] = 0
        /\ pending # <<>>
        /\ K0 \notin DOMAIN disk
        /\ K0 \notin DOMAIN memory_cache

\* What the envelope check makes of a non-empty body.
Validated(bytes) ==
    CASE bytes.kind = "object" ->
             IF "data" \in bytes.keys \/ "errors" \in bytes.keys
             THEN Ok(bytes, "")
             ELSE ErrOther(<<"response", "missing", "required", "data", "or",
                             "errors", "field">>)
      [] bytes.kind = "array" -> Ok(bytes, "")
      [] bytes.kind = "text" -> ErrDeserialize

\* C19: get_json, post_json and put_json, on bytes from the network or
\* from the cache, accept a non-empty JSON object exactly when it has a
\* `data` or an `errors` key and fail with Other when it has neither, accept
\* a JSON value that is no object, and fail with Deserialize on a body that
\* is not JSON.
C19_EnvelopeValidation ==
    \A t \in Tasks :
        (/\ reply[t] # NoResult
         /\ req[t].op \in {"get_json", "post_json", "put_json"}
         /\ result[t].tag = "Ok"
         /\ result[t].bytes.kind # "empty") =>
            reply[t] = Validated(result[t].bytes)

\* {"foo": "bar"} read back from the cache directory: nothing is sent and
\* get_json fails with Other.
C19_Witness ==
    \E t \in Tasks :
        /\ req[t].op = "get_json"
        /\ result[t] = Ok(FooBody, "disk")
        /\ sends[t] = 0
        /\ reply[t].tag = "Other"

\* The error of an empty body.
EmptyBodyError(path) == ErrOther(<<"empty", "response", "body", "for", path>>)

\* The stream is handed a result of execute with an empty body.
EmptyFetch(t) ==
    /\ ResumeStep
    /\ pc[t] = "done"
    /\ result[t].tag = "Ok"
    /\ result[t].bytes = EmptyBody

\* C20 (amended): on an empty 2xx body, from the network or from the
\* cache, get_json, post_json and put_json fail with "empty response body
\* for <path>" and a pagination stream yields that error and ends, while
\* post_void and delete, which drop the body, return Ok(()).
C20_EmptyBody ==
    /\ [](\A t \in Tasks :
            (/\ reply[t] # NoResult
             /\ result[t].tag = "Ok"
             /\ result[t].bytes = EmptyBody) =>
                reply[t] = IF req[t].op \in {"post_void", "delete"}
                           THEN OkUnit
                           ELSE EmptyBodyError(req[t].path))
    /\ [][\A t \in Tasks :
            EmptyFetch(t) =>
                /\ yielded' = Append(yielded, Failure(EmptyBodyError(ListPath)))
                /\ st' = "ended"]_vars

\* A DELETE answered 200 with an empty body has returned Ok(()).
C20_Witness ==
    \E t \in Tasks :
        /\ req[t].op = "delete"
        /\ last_resp[t] = Response(200, NoHeaders, EmptyBody)
        /\ reply[t] = OkUnit

\* C20 as stated: whatever the operation, an empty 2xx body makes it fail
\* with the empty-body error.
C20_EmptyBodyAlwaysFails ==
    \A t \in Tasks :
        (/\ reply[t] # NoResult
         /\ result[t].tag = "Ok"
         /\ result[t].bytes = EmptyBody) =>
            reply[t] = EmptyBodyError(req[t].path)

\* C21: a GET is answered from the cache, by either tier, only with bytes
\* fetched less than cache_ttl ago; stated here with one tick to spare, as
\* not more than cache_ttl ago.  The bytes of the earlier instance were
\* fetched at tick 0 at the latest.
C21_StalenessBound ==
    \A t \in Tasks :
        (/\ result[t].tag = "Ok"
         /\ result[t].tier \in {"memory", "disk"}
         /\ result[t].bytes = OldBody) =>
            now <= cache_ttl

\* C22: requests with one cache key are requests for one content, so a
\* client is never served, from the directory it shares, a response that
\* was fetched for another credential: what a GET of SharedPath returns is
\* what the server answers to the client's own token.
C22_SameKeySameContent ==
    \A t \in Tasks :
        (result[t].tag = "Ok" /\ req[t].path = SharedPath) =>
            result[t].bytes = WorkspacesOf(Token)

\* C23: a request has at most one attempt in flight; an attempt is sent
\* only when every attempt before it has failed and each was followed by
\* one completed sleep; and the sleep that follows a 5xx or a transport
\* failure of attempt k is base * 2^k, whatever the classes of the earlier
\* failures.
C23_AttemptOrdering ==
    \A t \in Tasks :
        /\ sends[t] - Len(outcomes[t]) \in {0, 1}
        /\ (sends[t] - Len(outcomes[t]) = 1) <=> (pc[t] = "inflight")
        /\ pc[t] \in {"send", "inflight"} =>
              /\ Len(outcomes[t]) = attempt[t]
              /\ Len(slept[t]) = attempt[t]
              /\ \A i \in DOMAIN outcomes[t] : outcomes[t][i] \in Transient
        /\ pc[t] = "sleep" =>
              /\ Len(outcomes[t]) = attempt[t] + 1
              /\ Len(slept[t]) = attempt[t] + 1
        /\ \A i \in DOMAIN slept[t] :
              outcomes[t][i] \in {"5xx", "transport"} =>
                  slept[t][i] = retry_base_delay * 2 ^ (i - 1)

\* The third attempt is in flight: the first met a 429 with Retry-After: 2
\* and the second a 5xx, after which the sleep was base * 2^1.
C23_Witness ==
    \E t \in Tasks :
        /\ pc[t] = "inflight"
        /\ sends[t] = 3
        /\ outcomes[t] = <<"429", "5xx">>
        /\ slept[t] = <<2 * TicksPerSec, 2 * RetryBaseDelay>>

\* The Http error that the response of the last attempt stands for: its
\* status, its text or, when it has none, the reason phrase of the status,
\* and its JSON value when it is JSON.
HttpOf(resp) ==
    ErrHttp(resp.status,
            IF resp.body.kind = "empty"
            THEN canonical_reason(resp.status)
            ELSE resp.body.text,
            IF resp.body.kind \in {"object", "array"}
            THEN Some(resp.body)
            ELSE None)

\* C24: the error of a request that ends is that of its last attempt.  A
\* transport failure that is neither a timeout nor a connect failure gives
\* Network at once, a timeout or connect failure gives Network at
\* attempt = max_retries only; a 429 gives RateLimited, and a 5xx gives
\* Http, at attempt = max_retries only; any other status gives Http the
\* first time it is met.
C24_TerminalError ==
    \A t \in Tasks :
        (pc[t] = "done" /\ outcomes[t] # <<>>) =>
            LET last == outcomes[t][Len(outcomes[t])]
            IN  /\ last = "fatal" => result[t] = ErrNetwork
                /\ last = "transport" =>
                      result[t] = ErrNetwork /\ attempt[t] = max_retries
                /\ last = "429" =>
                      /\ result[t].tag = "RateLimited"
                      /\ attempt[t] = max_retries
                /\ last = "5xx" =>
                      /\ result[t] = HttpOf(last_resp[t])
                      /\ attempt[t] = max_retries
                /\ last = "4xx" => result[t] = HttpOf(last_resp[t])

\* A 404 with an empty body, met by the second attempt of a client that
\* had a retry left: Http 404 "Not Found" without details.
C24_Witness ==
    \E t \in Tasks :
        /\ pc[t] = "done"
        /\ max_retries = 2
        /\ outcomes[t] = <<"transport", "4xx">>
        /\ result[t] = ErrHttp(404, <<"Not", "Found">>, None)

\* Both callers have returned the bytes of a 2xx of their own request and no
\* insert is pending.
BothFetched ==
    /\ \A t \in Callers : /\ pc[t] = "done"
                           /\ result[t].tag = "Ok"
                           /\ result[t].tier = "network"
    /\ pending = <<>>
    /\ locks = NoLocks

\* C25: two tasks that issue the same GET at once on a shared client with
\* an empty cache may both miss and both send; each returns the bytes of
\* its own 2xx response, and afterwards each tier of the cache holds, under
\* the key, the bytes of one of the two responses.
C25_NoDeduplication ==
    BothFetched =>
        /\ \A t \in Callers : /\ sends[t] >= 1
                               /\ last_resp[t].status = 200
                               /\ result[t].bytes = last_resp[t].body
        /\ K0 \in DOMAIN memory_cache
        /\ memory_cache[K0].value \in {last_resp[t].body : t \in Callers}
        /\ K0 \in DOMAIN disk
        /\ disk[K0] \in {WrittenFile(last_resp[t].body) : t \in Callers}

\* C26: the write guard of rate_limit is held by a task only at the
\* assignment of the snapshot, never while its send, its backoff sleep or
\* its disk read or write is pending; the write guard of memory_cache is
\* held only by a spawned insert that is about to insert; a read guard of
\* memory_cache is held only while the entry is read; no task holds a guard
\* of both locks.  Every holder is at the step that drops its guard, and
\* some step can be taken until every request has returned and every
\* insert has run: the tasks do not deadlock.
C26_LockPolicy ==
    /\ \A t \in Callers :
          locks.rate_writer = Some(t) =>
              /\ pc[t] = "rate_held"
              /\ t \notin locks.cache_readers
    /\ locks.rate_writer # None => \E t \in Callers : locks.rate_writer = Some(t)
    /\ \A t \in locks.cache_readers : pc[t] = "memory"
    /\ locks.cache_writer # None =>
          /\ locks.cache_readers = {}
          /\ \E i \in DOMAIN pending : locks.cache_writer = Some(i)
    /\ \/ (\A t \in Callers : pc[t] \in {"idle", "done"}) /\ pending = <<>>
       \/ ENABLED NextConc

\* One task holds the write guard of rate_limit after a backoff sleep while
\* the other waits for it.
C26_Witness ==
    /\ locks.rate_writer = Some("t1")
    /\ slept["t1"] # <<>>
    /\ pc["t2"] = "rate_lock"

\* C27: the two tiers change only when a GET receives a 2xx (one file and
\* one spawned insert, both under the key of the request and with the bytes
\* of the response), when a lookup promotes a disk entry or deletes a file
\* it read and did not serve, and when a spawned insert runs.  A POST, PUT
\* or DELETE and a request that fails leave them as they are, so the entry
\* of a path outlives a successful PUT or DELETE on that path.
C27_CacheFrame ==
    [][cacheVars' # cacheVars =>
          \/ /\ \E i \in DOMAIN pending :
                   memory_cache' = Put(memory_cache, pending[i].key,
                                       pending[i].entry)
             /\ Len(pending') = Len(pending) - 1
             /\ disk' = disk
          \/ \E t \in Tasks :
                /\ LookupStep(t)
                /\ memory_cache' = memory_cache
                /\ \/ /\ disk' = disk
                      /\ result'[t].tier = "disk"
                      /\ pending' = Append(pending,
                             [key |-> KeyOf(t),
                              entry |-> CacheEntry(now + cache_ttl,
                                                   result'[t].bytes)])
                   \/ /\ disk' = Remove(disk, KeyOf(t))
                      /\ pending' = pending
          \/ \E t \in Tasks :
                /\ pc[t] = "inflight"
                /\ req[t].method = "GET"
                /\ last_resp'[t].status = 200
                /\ memory_cache' = memory_cache
                /\ DOMAIN disk' = DOMAIN disk \cup {KeyOf(t)}
                /\ \A k \in DOMAIN disk \ {KeyOf(t)} : disk'[k] = disk[k]
                /\ disk'[KeyOf(t)].entry.body = Encode(last_resp'[t].body)
                /\ pending' = Append(pending,
                       [key |-> KeyOf(t),
                        entry |-> CacheEntry(now + cache_ttl,
                                             last_resp'[t].body)])]_vars

\* A PUT or a DELETE on /users/me has succeeded and both tiers still hold
\* the unexpired entry of GET /users/me.
C27_Witness ==
    \E t \in Tasks :
       /\ pc[t] = "done"
       /\ req[t].method \in {"PUT", "DELETE"}
       /\ req[t].path = "/users/me"
       /\ result[t].tag = "Ok"
       /\ sends[t] = 1
       /\ MemoryFresh(K0)
       /\ DiskFresh(K0)

\* One GET of BodyPath after another, whose 2xx bodies are of every shape,
\* while the clock moves and the spawned inserts run.
NextInvalid ==
    \/ \E t \in Tasks : Call(t, "get_json", BodyPath)
    \/ \E t \in Tasks : Execute(t, PlainServer)
    \/ \E t \in Tasks : Deliver(t)
    \/ \E t \in Tasks : Consume(t)
    \/ \E i \in 1..MaxCalls : MemInsert(i)
    \/ Tick

SpecInvalid == InitBody /\ [][NextInvalid]_vars

\* What get_json makes of bytes, fresh or cached.
Parsed(path, bytes) ==
    IF bytes = EmptyBody THEN EmptyBodyError(path) ELSE Validated(bytes)

NoEmptyPage == \A k \in DOMAIN fetched : IsPage(k) => ItemsOf(k) # <<>>

\* C29: a stream with max_items = Some(m) whose fetched pages all hold at
\* least one item makes at most m page requests, whatever tokens the
\* server returns, a repeated token included: each such page raises emitted,
\* never above m, and after the m-th page the stream has ended.
C29_BoundedPagination ==
    /\ []((IsSome(max_items) /\ NoEmptyPage) =>
             /\ fetches <= Unwrap(max_items)
             /\ (Unwrap(max_items) >= 1 /\ Len(fetched) = Unwrap(max_items)) =>
                    st = "ended")
    /\ [][(/\ ResumeStep
           /\ IsSome(max_items)
           /\ Len(fetched') = Len(fetched) + 1
           /\ fetched'[Len(fetched')].response.tag = "Ok"
           /\ fetched'[Len(fetched')].response.bytes.items # <<>>) =>
              /\ emitted < emitted'
              /\ emitted' <= Unwrap(max_items)]_vars

\* A server that returns token "a" with every one-item page: the stream
\* with max_items = Some(2) has ended after two page requests.
C29_Witness ==
    /\ max_items = Some(2)
    /\ st = "ended"
    /\ fetches = 2
    /\ emitted = 2
    /\ Len(fetched) = 2
    /\ \A k \in {1, 2} : IsPage(k) /\ TokenOf(k) = "a" /\ Len(ItemsOf(k)) = 1

\* C30: once every request has returned and every spawned insert has run,
\* the memory entry of a key is that of the most recent store, so that the
\* memory tier and the disk tier hold the same bytes under every key that
\* both hold unexpired.
C30_TiersAgree ==
    (pending = <<>> /\ \A t \in Callers : pc[t] \in {"idle", "done"}) =>
        \A k \in DOMAIN memory_cache \cap DOMAIN disk :
            (MemoryFresh(k) /\ DiskFresh(k)) =>
                memory_cache[k].value = disk[k].entry.body[2]

=============================================================================
